---- MODULE Spec2Model ----
(***************************************************************************)
(* FlowDiff: a model of the call-tree builder, the symbol diff, the Python *)
(* call resolver, table merging and the HTTP bridge, translated from the   *)
(* sources under src/src/analyzer.                                         *)
(*                                                                         *)
(* The module holds several specifications over one set of variables; each *)
(* specification drives one component and leaves the variables of the      *)
(* others at their idle values.                                            *)
(***************************************************************************)
EXTENDS Naturals, Integers, Sequences, FiniteSets, TLC

VARIABLES
    \* ---- call-tree builder (call_tree_adapter.py) ----
    all_symbols,        \* CallTreeAdapter.all_symbols: qualified_name -> Symbol
    entry_points,       \* the entry-point symbols handed to the builder, in order
    stack,              \* pending calls of _build_tree_recursive (depth-first)
    trees,              \* every CallTreeNode created so far
    next_entry,         \* index of the next entry point to build a tree for
    max_changed_depth,  \* CallTreeAdapter.max_changed_depth
    tpc,                \* position of the build: idle, build, done, recursion_error
    \* ---- diff engine (git/diff_analyzer.py, git/symbol_change_mapper.py) ----
    repo_head,          \* the files of the tree of commit HEAD, in rglob order
    repo_working,       \* the files of the project's working tree, in rglob order
    before, after,      \* the reference strings given to analyze_diff
    before_sha, after_sha,  \* what GitRefResolver.resolve returned for them
    diff_cmd,           \* the operands get_changed_files gave to git diff
    before_symbols,     \* map_changes: the before-side universe it compares
    after_symbols,      \* map_changes: the after-side universe it compares
    symbol_changes,     \* map_changes: qualified_name -> SymbolChange
    extractions,        \* the git archive extractions performed, in order
    is_git,             \* whether project_root/.git exists
    faulty,             \* the external command of the run that fails or never exits
    procs,              \* the external processes started so far, in order
    failure,            \* the exception analyze_diff or the constructor raised
    dpc,                \* position of analyze_diff, or the exception it raised
    \* ---- per-language analyzers (python/python_analyzer.py, shell/shell_analyzer.py) ----
    language,           \* the analyzer under test: "python" or "shell"
    file_tables,        \* the per-file symbol tables handed to merge_symbol_tables
    merged,             \* the table merge_symbol_tables returned
    after_first,        \* qualified_name -> resolved_calls as the first resolve_calls left them
    runs,               \* number of resolve_calls runs on the merged table so far
    ppc,                \* position: idle, tables, merged, resolved, or the exception raised
    \* ---- the pipeline (orchestrator.py) ----
    project_root,       \* FlowDiffOrchestrator.project_root, resolved, as Path.parts
    project,            \* the files of the project directory, in rglob order
    files,              \* analyze(): the files discovered
    files_by_lang,      \* analyze(): the files grouped by language
    symbol_tables,      \* analyze(): language -> merged table
    cross_refs,         \* analyze(): what resolve_cross_language_calls returned
    bridges,            \* CrossLanguageResolver.bridges, in registration order
    after_intra,        \* language -> qualified_name -> resolved_calls as step 4 left them
    stages,             \* the stages analyze() has run so far, in order
    apc,                \* position of analyze(), or the exception it raised
    \* ---- pre-marking (git/diff_analyzer.py, _build_tree_from_adapter) ----
    stamp_before,       \* all_symbols of the adapter of the before side
    stamp_after,        \* all_symbols of the adapter of the after side
    stamp_changes,      \* the symbol_changes handed to _build_tree_from_adapter
    spc,                \* position: idle, analyzed, before_marked, marked
    \* ---- entry-point filtering (call_tree_builder.py, llm_entry_point_filter.py) ----
    function_infos,     \* CallTreeBuilder.functions: qualified_name -> is_entry_point
    heuristic,          \* the names the first two passes marked as entry points
    use_llm_filtering,  \* CallTreeBuilder.use_llm_filtering
    collaborator,       \* how the filter and its provider behave in this run
    fpc,                \* position: idle, identified, filtered
    \* ---- the call resolver (python/call_resolver.py) ----
    resolver_table,     \* PythonCallResolver.symbol_table
    caller,             \* the calling symbol handed to resolve
    raw_call,           \* the call name handed to resolve
    resolution,         \* what resolve returned or raised
    rpc,                \* position: idle, called, returned, raised
    \* ---- the file change detector (git/file_change_detector.py) ----
    head_tree,          \* the files of commit HEAD: path -> content
    work_tree,          \* the files of the project directory: path -> content
    untracked,          \* the files of the directory the index does not know
    before_ref,         \* get_changed_files: its first argument
    after_ref,          \* get_changed_files: its second argument
    file_changes,       \* what get_changed_files returned or raised
    cpc                 \* position: idle, called, returned, raised

treeVars == <<all_symbols, entry_points, stack, trees, next_entry, max_changed_depth, tpc>>

diffVars == <<repo_head, repo_working, before, after, before_sha, after_sha, diff_cmd,
              before_symbols, after_symbols, symbol_changes, extractions,
              is_git, faulty, procs, failure, dpc>>

tableVars == <<language, file_tables, merged, after_first, runs, ppc>>

analyzeVars == <<project_root, project, files, files_by_lang, symbol_tables, cross_refs, bridges,
                 after_intra, stages, apc>>

stampVars == <<stamp_before, stamp_after, stamp_changes, spc>>

filterVars == <<function_infos, heuristic, use_llm_filtering, collaborator, fpc>>

resolverVars == <<resolver_table, caller, raw_call, resolution, rpc>>

changesVars == <<head_tree, work_tree, untracked, before_ref, after_ref, file_changes, cpc>>

vars == <<treeVars, diffVars, tableVars, analyzeVars, stampVars, filterVars, resolverVars,
          changesVars>>

\* what the actions of one component leave alone
notTree == <<diffVars, tableVars, analyzeVars, stampVars, filterVars,
             resolverVars, changesVars>>

notDiff == <<treeVars, tableVars, analyzeVars, stampVars, filterVars,
             resolverVars, changesVars>>

notTable == <<treeVars, diffVars, analyzeVars, stampVars, filterVars,
              resolverVars, changesVars>>

notAnalyze == <<treeVars, diffVars, tableVars, stampVars, filterVars,
                resolverVars, changesVars>>

notStamp == <<treeVars, diffVars, tableVars, analyzeVars, filterVars,
              resolverVars, changesVars>>

notFilter == <<treeVars, diffVars, tableVars, analyzeVars, stampVars,
               resolverVars, changesVars>>

notResolver == <<treeVars, diffVars, tableVars, analyzeVars, stampVars, filterVars,
                 changesVars>>

notChanges == <<treeVars, diffVars, tableVars, analyzeVars, stampVars, filterVars,
                resolverVars>>

(***************************************************************************)
(* Small helpers.                                                          *)
(***************************************************************************)
Max(a, b) == IF a >= b THEN a ELSE b

Range(s) == {s[i] : i \in 1..Len(s)}

SeqsUpTo(S, n) == UNION {[1..k -> S] : k \in 0..n}

(***************************************************************************)
(* Bounds of the model.                                                    *)
(***************************************************************************)
\* longest resolved_calls list of a symbol of the small universes
MaxCalls == 2
\* most entry points of a build over a small universe
MaxEntries == 2
\* depth of the deepest chain universe (symbols S0..S<MaxChain>)
MaxChain == 10
\* stand-in for the interpreter's recursion limit: deeper than any tree the
\* bounded universes can produce with a working cycle guard
RecursionLimit == MaxChain + 3
\* greatest line_number of a symbol of the diffed universes
MaxLine == 2

(***************************************************************************)
(* Call-tree builder: src/src/analyzer/call_tree_adapter.py                *)
(***************************************************************************)
DEFAULT_EXPANSION_DEPTH == 6

\* the symbols of the small universes, and a callee that is no known symbol
SmallNames == {"A", "B"}
UnknownName == "X"

ChainName(i) == "S" \o ToString(i)

\* A Symbol as the tree builder reads it.
TreeSymbol(calls, changed) == [resolved_calls |-> calls, has_changes |-> changed]

\* Small universes: every choice of call lists and change flags over A and B.
SmallUniverses ==
    [SmallNames -> [resolved_calls : SeqsUpTo(SmallNames \cup {UnknownName}, MaxCalls),
                    has_changes : BOOLEAN]]

\* Chain universes: S0 -> S1 -> ... -> S<len>, the last symbol calling nothing
\* (back = FALSE) or calling S0 again (back = TRUE); `changed` is the set of
\* indices whose symbol carries has_changes.
ChainUniverse(len, back, changed) ==
    [q \in {ChainName(i) : i \in 0..len} |->
        LET i == CHOOSE j \in 0..len : ChainName(j) = q
        IN  TreeSymbol(IF i < len THEN <<ChainName(i + 1)>>
                       ELSE IF back THEN <<ChainName(0)>> ELSE <<>>,
                       i \in changed)]

\* The frame of one call _build_tree_recursive(symbol, depth, visited); `tree`
\* and `path` locate the node the call creates (path = child indices from the root).
Frame(t, p, q, d, v) == [tree |-> t, path |-> p, qn |-> q, depth |-> d, visited |-> v]

CallTreeNode(t, p, q, d) ==
    [tree |-> t, path |-> p, qn |-> q, depth |-> d, is_expanded |-> FALSE]

\* The callees of a symbol that get a child node: `if called_name in self.all_symbols`.
KnownCalls(q) == SelectSeq(all_symbols[q].resolved_calls, LAMBDA c : c \in DOMAIN all_symbols)

\* `if symbol.qualified_name in visited: return node` (mutant: the guard never cuts)
NeverCutOff(f) == FALSE

\* (mutant: one visited set shared by the whole tree instead of visited.copy())
CutOffSeenAnywhere(f) == \E n \in trees : n.tree = f.tree /\ n.qn = f.qn

CutOff(f) == f.qn \in f.visited

\* `if symbol.has_changes and depth > self.max_changed_depth`
TrackChangedDepth(f, m) ==
    IF all_symbols[f.qn].has_changes /\ f.depth > m THEN f.depth ELSE m

\* The recursive calls a frame makes, in list order; each gets visited.copy() after
\* visited.add(symbol.qualified_name).
ChildFrames(f) ==
    LET ks == KnownCalls(f.qn)
    IN  [i \in 1..Len(ks) |->
            Frame(f.tree, Append(f.path, i), ks[i], f.depth + 1, f.visited \cup {f.qn})]

\* `expansion_depth = max(self.DEFAULT_EXPANSION_DEPTH, self.max_changed_depth)`
\* (mutant: the depth of the changed nodes is ignored)
ExpansionDepthDefaultOnly(m) == DEFAULT_EXPANSION_DEPTH

ExpansionDepth(m) == Max(DEFAULT_EXPANSION_DEPTH, m)

\* _apply_expansion_state over every tree: the recursion reaches every node, and
\* sets is_expanded where node.depth < expansion_depth.
ApplyExpansionState(ns, expansion_depth) ==
    {[n EXCEPT !.is_expanded = (n.depth < expansion_depth) \/ n.is_expanded] : n \in ns}

TreeIdle ==
    /\ all_symbols = <<>>
    /\ entry_points = <<>>
    /\ stack = <<>>
    /\ trees = {}
    /\ next_entry = 1
    /\ max_changed_depth = 0
    /\ tpc = "idle"

TreeBegin ==
    /\ \/ /\ all_symbols \in SmallUniverses
          /\ entry_points \in SeqsUpTo(SmallNames, MaxEntries)
       \/ \E len \in 0..MaxChain, back \in BOOLEAN, k \in (-1)..MaxChain, j \in 0..1 :
             /\ k <= len
             /\ all_symbols = ChainUniverse(len, back, IF k < 0 THEN {} ELSE {k})
             /\ entry_points = IF j = 0 THEN <<ChainName(0)>>
                               ELSE <<ChainName(len), ChainName(0)>>
    /\ stack = <<>>
    /\ trees = {}
    /\ next_entry = 1
    /\ max_changed_depth = 0
    /\ tpc = "build"

\* `for symbol in entry_point_symbols: tree = self._build_tree_recursive(symbol, 0, set())`
StartTree ==
    /\ tpc = "build"
    /\ stack = <<>>
    /\ next_entry <= Len(entry_points)
    /\ stack' = <<Frame(next_entry, <<>>, entry_points[next_entry], 0, {})>>
    /\ next_entry' = next_entry + 1
    /\ UNCHANGED <<all_symbols, entry_points, trees, max_changed_depth, tpc>>
    /\ UNCHANGED notTree

\* One call of _build_tree_recursive: track the changed depth, create the node,
\* stop at a symbol already on the path, otherwise recurse into the known callees.
BuildTreeRecursive ==
    /\ tpc = "build"
    /\ stack # <<>>
    /\ LET f == Head(stack)
       IN  IF f.depth >= RecursionLimit
           THEN /\ tpc' = "recursion_error"
                /\ UNCHANGED <<stack, trees, max_changed_depth>>
           ELSE /\ max_changed_depth' = TrackChangedDepth(f, max_changed_depth)
                /\ trees' = trees \cup {CallTreeNode(f.tree, f.path, f.qn, f.depth)}
                /\ stack' = IF CutOff(f) THEN Tail(stack)
                            ELSE ChildFrames(f) \o Tail(stack)
                /\ tpc' = tpc
    /\ UNCHANGED <<all_symbols, entry_points, next_entry>>
    /\ UNCHANGED notTree

\* Second pass: expansion_depth, then _apply_expansion_state on every tree.
ApplyExpansion ==
    /\ tpc = "build"
    /\ stack = <<>>
    /\ next_entry > Len(entry_points)
    /\ trees' = ApplyExpansionState(trees, ExpansionDepth(max_changed_depth))
    /\ tpc' = "done"
    /\ UNCHANGED <<all_symbols, entry_points, stack, next_entry, max_changed_depth>>
    /\ UNCHANGED notTree

TreeStep == StartTree \/ BuildTreeRecursive \/ ApplyExpansion

(***************************************************************************)
(* Diff engine: src/src/analyzer/git                                       *)
(*                                                                         *)
(* The repository has one commit, HEAD, and a working tree.  The commands  *)
(* analyze_diff starts, and the universes (qualified_name -> Symbol) the   *)
(* loops of map_changes compare.                                           *)
(***************************************************************************)
None == "None"

\* GitRefResolver.WORKING_TREE_MARKER
WORKING_TREE_MARKER == "working"

\* the reference strings tried: the marker, a reference git resolves, one it does not
RefStrings == {WORKING_TREE_MARKER, "HEAD", "nope"}

HeadSha == "sha-head"

\* A Symbol as the symbol diff reads it.
DiffSymbol(m, calls, doc, line) ==
    [metadata |-> m, resolved_calls |-> calls, documentation |-> doc, line_number |-> line]

DiffCallLists == {<<>>, <<"g">>, <<"g", "g">>, <<"g", "h">>, <<"h", "g">>}

DiffSymbols ==
    {DiffSymbol(m, c, d, l) : m \in {"m1", "m2"}, c \in DiffCallLists,
                              d \in {None, "doc"}, l \in 1..MaxLine}

\* The universes handed to the loops: f with any fields or absent, g fixed or absent.
DiffUniverses ==
    {[q \in ({"f"} \cap fs) \cup ({"g"} \cap gs) |->
         IF q = "f" THEN s ELSE DiffSymbol("m1", <<>>, None, 1)] :
        fs \in {{}, {"f"}}, gs \in {{}, {"g"}}, s \in DiffSymbols}

\* constants.py SUBPROCESS_DEFAULT_TIMEOUT, in seconds
SUBPROCESS_DEFAULT_TIMEOUT == 60

\* timeout=None: the process is waited for without a bound
NoTimeout == -1

\* f"{self.project_root}" of GitRefResolver
ProjectRootStr == "/home/proj"

\* an external process: the command, the stage that starts it, the references
\* on its command line, and the timeout of the first wait on it
Proc(cmd, stage, refs, timeout) ==
    [cmd |-> cmd, stage |-> stage, refs |-> refs, timeout |-> timeout]

NoFault == [cmd |-> "none", stage |-> "none", how |-> "none"]

\* one command of one stage exits non-zero ("fails"), never exits and keeps
\* its output open ("hangs"), or writes its output, closes it and never exits
\* ("lingers")
Faults ==
    {NoFault} \cup
    {[cmd |-> c[1], stage |-> c[2], how |-> h] :
        c \in {<<"git rev-parse", "resolve">>, <<"git diff", "detect">>,
               <<"git archive", "map_changes">>, <<"tar", "map_changes">>,
               <<"git archive", "build_tree">>, <<"tar", "build_tree">>},
        h \in {"fails", "hangs", "lingers"}}

\* the timeout of the wait on the process that reads the output of p: of
\* `final_proc.communicate(timeout=timeout)` on tar for the git archive of
\* run_piped_commands, of subprocess.run on tar (none) for the git archive of
\* map_changes; the output of the other processes is read by the wait on
\* themselves
ReaderTimeout(p) ==
    IF p.cmd = "git archive" /\ p.stage = "build_tree" THEN SUBPROCESS_DEFAULT_TIMEOUT
    ELSE p.timeout

\* how the waits for process p end: "ok", "failed" (non-zero exit), "timeout"
\* (subprocess.TimeoutExpired), or "waiting": no timeout and no exit.  A
\* process that keeps its output open keeps its reader from ending, so the
\* reader's timeout ends the wait; one that has closed it is waited for by
\* the wait on itself.
Outcome(p) ==
    IF faulty.cmd # p.cmd \/ faulty.stage # p.stage THEN "ok"
    ELSE IF faulty.how = "fails" THEN "failed"
    ELSE IF faulty.how = "hangs" /\ ReaderTimeout(p) # NoTimeout THEN "timeout"
    ELSE IF p.timeout = NoTimeout THEN "waiting"
    ELSE "timeout"

\* the index of the first process of ps that does not end "ok", 0 when all do
FirstBad(ps) ==
    LET bad == {i \in 1..Len(ps) : Outcome(ps[i]) # "ok"}
    IN  IF bad = {} THEN 0 ELSE CHOOSE i \in bad : \A j \in bad : i <= j

\* an exception: its type, the command its message reports (None: no command),
\* and the references or the path its message names
Failure(exc, command, names) == [exc |-> exc, command |-> command, names |-> names]

NoFailure == Failure("none", None, <<>>)

\* run_command(["git", "rev-parse", "--verify", ref], cwd=project_root)
RevParseProc(ref) == Proc("git rev-parse", "resolve", <<ref>>, SUBPROCESS_DEFAULT_TIMEOUT)

\* `git rev-parse --verify ref`: the commit, or a failure
RevParse(ref) ==
    IF Outcome(RevParseProc(ref)) # "ok" THEN "SubprocessError"
    ELSE IF ref = "HEAD" THEN HeadSha ELSE "SubprocessError"

\* mutant of Resolve: a reference git rejects is taken for the working tree
ResolveLenient(ref) ==
    IF ref = WORKING_TREE_MARKER THEN None
    ELSE IF RevParse(ref) = "SubprocessError" THEN None
    ELSE RevParse(ref)

\* GitRefResolver.resolve: None for the marker, ValueError for what git rejects
Resolve(ref) ==
    IF ref = WORKING_TREE_MARKER THEN None
    ELSE IF RevParse(ref) = "SubprocessError" THEN "ValueError"
    ELSE RevParse(ref)

\* FileChangeDetector.get_changed_files: the git diff operands, or ValueError
GetChangedFiles(b, a) ==
    IF b = None /\ a = None THEN "ValueError"
    ELSE IF a = None THEN <<b>>
    ELSE IF b = None THEN <<a, "--">>
    ELSE <<b, "..", a>>

(***************************************************************************)
(* Symbols and symbol tables: core/symbol.py, python/python_symbol_table.py *)
(*                                                                         *)
(* A dotted name ("a.Foo.bar") is the sequence of its segments, so that    *)
(* str.split('.') and '.'.join are SubSeq and \o.  The empty sequence is   *)
(* the empty string, and None where a name is expected: both are falsy.    *)
(* A dict is a function; <<>> is the empty dict.  Keys are dotted names.   *)
(***************************************************************************)
NoName == <<>>

Put(d, k, v) == [x \in DOMAIN d \cup {k} |-> IF x = k THEN v ELSE d[x]]

\* dict.update
Update(d, e) == [x \in DOMAIN d \cup DOMAIN e |-> IF x \in DOMAIN e THEN e[x] ELSE d[x]]

\* dict.get(key) of a metadata dict
MetaGet(md, key) == IF key \in DOMAIN md THEN md[key] ELSE None

\* A dict whose iteration order is observed: its keys in insertion order, and the map.
ODEmpty == [keys |-> <<>>, map |-> <<>>]

ODPut(d, k, v) ==
    [keys |-> IF k \in DOMAIN d.map THEN d.keys ELSE Append(d.keys, k),
     map  |-> Put(d.map, k, v)]

ODUpdate(d, e) ==
    [keys |-> d.keys \o SelectSeq(e.keys, LAMBDA k : k \notin DOMAIN d.map),
     map  |-> Update(d.map, e.map)]

\* name.split('.')[-1]
LastSegment(n) == IF n = <<>> THEN <<>> ELSE <<n[Len(n)]>>

\* '.'.join(parts)
RECURSIVE JoinDots(_)
JoinDots(n) ==
    IF n = <<>> THEN "" ELSE IF Len(n) = 1 THEN n[1] ELSE n[1] \o "." \o JoinDots(Tail(n))

\* Path.name of a file [dirs, stem, ext]
FileName(file) == JoinDots(file.stem) \o "." \o file.ext

\* core/symbol.py Symbol, as the analyzers construct it; documentation is the
\* docstring of a function, None (the default) for a script and for a function
\* without one
Symbol(name, qualified_name, lang, file_path, metadata, raw_calls, is_entry_point, documentation) ==
    [name |-> name, qualified_name |-> qualified_name, language |-> lang,
     file_path |-> file_path, metadata |-> metadata, raw_calls |-> raw_calls,
     resolved_calls |-> <<>>, is_entry_point |-> is_entry_point, has_changes |-> FALSE,
     documentation |-> documentation]

\* python_symbol_table.py ClassSymbol; a method is held by its qualified name
ClassSymbol(name, qualified_name, methods) ==
    [name |-> name, qualified_name |-> qualified_name, methods |-> methods]

\* PythonSymbolTable.__init__
PythonSymbolTable(module_name) ==
    [language |-> "python", module_name |-> module_name, symbols |-> ODEmpty,
     imports |-> <<>>, classes |-> <<>>, functions |-> <<>>]

\* ShellSymbolTable.__init__
ShellSymbolTable == [language |-> "shell", symbols |-> ODEmpty]

\* PythonSymbolTable.add_symbol
AddSymbol(t, symbol) ==
    [t EXCEPT !.symbols = ODPut(@, symbol.qualified_name, symbol),
              !.functions = IF symbol.metadata.is_class_method THEN @
                            ELSE Put(@, <<symbol.name>>, symbol.qualified_name)]

\* PythonSymbolTable.add_import
AddImport(t, name, qualified_name) == [t EXCEPT !.imports = Put(@, name, qualified_name)]

\* PythonSymbolTable.resolve_type
ResolveType(t, type_name) ==
    IF type_name \in DOMAIN t.classes THEN t.classes[type_name].qualified_name
    ELSE IF type_name \in DOMAIN t.imports THEN t.imports[type_name]
    ELSE NoName

\* PythonSymbolTable.get_class: the key of the class found in t.classes, or NoName
GetClass(t, name) ==
    IF name \in DOMAIN t.classes THEN name
    ELSE IF name \in DOMAIN t.imports /\ LastSegment(t.imports[name]) \in DOMAIN t.classes
         THEN LastSegment(t.imports[name])
    ELSE IF \E k \in DOMAIN t.classes : t.classes[k].qualified_name = name
         THEN CHOOSE k \in DOMAIN t.classes : t.classes[k].qualified_name = name
    ELSE NoName

(***************************************************************************)
(* The AST visitor: python/ast_visitor.py                                  *)
(*                                                                         *)
(* A function body is a sequence of simple statements:                     *)
(*   [op |-> "assign", target |-> "x", func |-> <<"Foo">>]    x = Foo()    *)
(*   [op |-> "expr",   target |-> "",  func |-> <<"x","bar">>]  x.bar()    *)
(*   [op |-> "import", target |-> "g", func |-> <<"b","g">>]               *)
(*                                                  from b import g        *)
(***************************************************************************)
Assign(target, func) == [op |-> "assign", target |-> target, func |-> func]

Expr(func) == [op |-> "expr", target |-> "", func |-> func]

ImportFrom(name, qualified) == [op |-> "import", target |-> name, func |-> qualified]

\* a function definition; docstring is what ast.get_docstring gives for it
FunctionDef(name, args, body, returns, decorator_list) ==
    [name |-> name, args |-> args, body |-> body, returns |-> returns,
     decorator_list |-> decorator_list, docstring |-> None]

\* the definition with a string literal as the first statement of its body
WithDocstring(node, text) == [node EXCEPT !.docstring = text]

ClassDef(name, body) == [name |-> name, body |-> body]

\* the value the last statement of the given kind gives each target
LastBinding(body, op) ==
    LET targets == {body[i].target : i \in {j \in 1..Len(body) : body[j].op = op}}
        last(tg) == CHOOSE i \in 1..Len(body) :
                       /\ body[i].op = op /\ body[i].target = tg
                       /\ \A j \in (i+1)..Len(body) : ~(body[j].op = op /\ body[j].target = tg)
    IN  [k \in {<<tg>> : tg \in targets} |-> body[last(k[1])].func]

\* _extract_calls: every call under the function node, in the order ast.walk
\* (breadth first) meets them: the decorator calls `app.<attr>(...)`, which are
\* children of the node, before the calls inside the statements of the body
ExtractCalls(node) ==
    LET calls == SelectSeq(node.body, LAMBDA s : s.op \in {"assign", "expr"})
    IN  [i \in 1..Len(node.decorator_list) |-> <<"app", node.decorator_list[i].attr>>]
            \o [i \in 1..Len(calls) |-> calls[i].func]

\* _extract_local_bindings: var -> constructor name, the last assignment winning
ExtractLocalBindings(node) == LastBinding(node.body, "assign")

\* _extract_function_local_imports
ExtractFunctionLocalImports(node) == LastBinding(node.body, "import")

HttpVerbs == {"post", "get", "put", "delete", "patch"}

\* str.upper on the decorator attribute
Upper(attr) ==
    CASE attr = "post" -> "POST" [] attr = "get" -> "GET" [] attr = "put" -> "PUT"
      [] attr = "delete" -> "DELETE" [] attr = "patch" -> "PATCH" [] OTHER -> attr

\* _extract_http_decorator: (method, route) of the first decorator that names a
\* verb, or route, and carries a path; <<None, None>> when there is none.
\* A decorator is [attr, path, method]: path <<>> when no constant path is given,
\* method "" when @app.route has no methods list.
ExtractHttpDecorator(node) ==
    LET ds == node.decorator_list
        hits == {i \in 1..Len(ds) : ds[i].attr \in HttpVerbs \cup {"route"} /\ ds[i].path # <<>>}
        first == CHOOSE i \in hits : \A j \in hits : i <= j
    IN  IF hits = {} THEN <<None, None>>
        ELSE IF ds[first].attr \in HttpVerbs THEN <<Upper(ds[first].attr), ds[first].path>>
        ELSE <<(IF ds[first].method # "" THEN ds[first].method ELSE "GET"), ds[first].path>>

\* _extract_function_symbol
ExtractFunctionSymbol(t, file_path, node, is_method, class_name) ==
    LET qualified_name == IF is_method /\ class_name # ""
                          THEN t.module_name \o <<class_name, node.name>>
                          ELSE t.module_name \o <<node.name>>
        http == ExtractHttpDecorator(node)
        base == [parameters |-> node.args,
                 return_type |-> node.returns,
                 is_class_method |-> is_method,
                 local_bindings |-> ExtractLocalBindings(node),
                 function_local_imports |-> ExtractFunctionLocalImports(node)]
        metadata == IF http[1] # None
                    THEN base @@ [http_method |-> http[1], http_route |-> http[2]]
                    ELSE base
        docstring == node.docstring
    IN  Symbol(node.name, qualified_name, "python", file_path, metadata,
               ExtractCalls(node), FALSE, docstring)

\* visit_ClassDef with PythonSymbolTable.add_class: the methods in body order,
\* a later method of the same name replacing the earlier one
RECURSIVE ClassMethods(_, _, _, _, _)
ClassMethods(t, file_path, class_name, body, acc) ==
    IF body = <<>> THEN acc
    ELSE ClassMethods(t, file_path, class_name, Tail(body),
             ODPut(acc, <<Head(body).name>>,
                   ExtractFunctionSymbol(t, file_path, Head(body), TRUE, class_name)))

RECURSIVE AddMethods(_, _, _)
AddMethods(symbols, methods, i) ==
    IF i > Len(methods.keys) THEN symbols
    ELSE AddMethods(ODPut(symbols, methods.map[methods.keys[i]].qualified_name,
                          methods.map[methods.keys[i]]), methods, i + 1)

VisitClassDef(t, file_path, node) ==
    LET methods == ClassMethods(t, file_path, node.name, node.body, ODEmpty)
        class_symbol == ClassSymbol(node.name, t.module_name \o <<node.name>>,
                            [k \in DOMAIN methods.map |-> methods.map[k].qualified_name])
    IN  [t EXCEPT !.classes = Put(@, <<node.name>>, class_symbol),
                  !.symbols = AddMethods(@, methods, 1)]

\* visit_FunctionDef
VisitFunctionDef(t, file_path, node) ==
    AddSymbol(t, ExtractFunctionSymbol(t, file_path, node, FALSE, ""))

\* visit_Import / visit_ImportFrom: one alias, [name, qualified]
VisitImport(t, alias) == AddImport(t, alias.name, alias.qualified)

\* NodeVisitor.visit over a module: a file is [module, path, imports, classes,
\* functions], its statements visited in that order.
RECURSIVE VisitAll(_, _, _, _)
VisitAll(t, file_path, kind, nodes) ==
    IF nodes = <<>> THEN t
    ELSE VisitAll(CASE kind = "import" -> VisitImport(t, Head(nodes))
                    [] kind = "class" -> VisitClassDef(t, file_path, Head(nodes))
                    [] OTHER -> VisitFunctionDef(t, file_path, Head(nodes)),
                  file_path, kind, Tail(nodes))

\* PythonASTVisitor(symbol_table, file_path).visit(tree)
Visit(file) ==
    VisitAll(VisitAll(VisitAll(PythonSymbolTable(file.module), file.path, "import", file.imports),
                      file.path, "class", file.classes),
             file.path, "function", file.functions)

(***************************************************************************)
(* Merging: PythonAnalyzer.merge_symbol_tables, ShellAnalyzer.merge_...    *)
(***************************************************************************)
PROJECT == <<"<project>">>

\* mutant of MergeInto: the first table that defines a name keeps it
MergeIntoFirstWins(m, table) ==
    IF table.language # "python" THEN m
    ELSE [m EXCEPT !.symbols = [keys |-> ODUpdate(@, table.symbols).keys,
                               map  |-> Update(table.symbols.map, @.map)],
                   !.imports = Update(table.imports, @),
                   !.classes = Update(table.classes, @),
                   !.functions = Update(table.functions, @)]

\* the body of the loop of PythonAnalyzer.merge_symbol_tables
MergeInto(m, table) ==
    IF table.language # "python" THEN m
    ELSE [m EXCEPT !.symbols = ODUpdate(@, table.symbols),
                   !.imports = Update(@, table.imports),
                   !.classes = Update(@, table.classes),
                   !.functions = Update(@, table.functions)]

RECURSIVE MergeFrom(_, _)
MergeFrom(m, tables) ==
    IF tables = <<>> THEN m ELSE MergeFrom(MergeInto(m, Head(tables)), Tail(tables))

\* PythonAnalyzer.merge_symbol_tables
PyMergeSymbolTables(tables) == MergeFrom(PythonSymbolTable(PROJECT), tables)

\* the body of the loop of ShellAnalyzer.merge_symbol_tables
ShMergeInto(m, table) ==
    IF table.language # "shell" THEN m
    ELSE [m EXCEPT !.symbols = ODUpdate(@, table.symbols)]

RECURSIVE ShMergeFrom(_, _)
ShMergeFrom(m, tables) ==
    IF tables = <<>> THEN m ELSE ShMergeFrom(ShMergeInto(m, Head(tables)), Tail(tables))

\* ShellAnalyzer.merge_symbol_tables
ShMergeSymbolTables(tables) == ShMergeFrom(ShellSymbolTable, tables)

(***************************************************************************)
(* The call resolver: python/call_resolver.py                              *)
(*                                                                         *)
(* A result is [exc, value]: the exception raised ("none" when it          *)
(* returned) and the qualified name returned (NoName for None).            *)
(***************************************************************************)
Returned(value) == [exc |-> "none", value |-> value]

Raised(exc) == [exc |-> exc, value |-> NoName]

ReturnTypeOf(t, qn) == t.symbols.map[qn].metadata.return_type

\* _resolve_type_method.  Type names come from a finite table, so a chain of
\* return types longer than the table has symbols revisits a name and never
\* ends: the interpreter raises RecursionError.
RECURSIVE ResolveTypeMethod(_, _, _, _)
ResolveTypeMethod(t, type_name, method_name, depth) ==
    LET qualified_type == ResolveType(t, type_name)
        class_symbol == IF qualified_type # NoName
                        THEN GetClass(t, LastSegment(qualified_type)) ELSE NoName
        same_module == t.module_name \o type_name
    IN  IF depth > Len(t.symbols.keys) + 1 THEN Raised("RecursionError")
        ELSE IF /\ qualified_type # NoName
                /\ class_symbol # NoName
                /\ method_name \in DOMAIN t.classes[class_symbol].methods
             THEN Returned(t.classes[class_symbol].methods[method_name])
        ELSE IF /\ type_name \in DOMAIN t.imports
                /\ t.imports[type_name] \in DOMAIN t.symbols.map
                /\ ReturnTypeOf(t, t.imports[type_name]) # NoName
             THEN ResolveTypeMethod(t, ReturnTypeOf(t, t.imports[type_name]),
                                    method_name, depth + 1)
        ELSE IF /\ same_module \in DOMAIN t.symbols.map
                /\ ReturnTypeOf(t, same_module) # NoName
             THEN ResolveTypeMethod(t, ReturnTypeOf(t, same_module), method_name, depth + 1)
        ELSE IF /\ type_name \in DOMAIN t.symbols.map
                /\ ReturnTypeOf(t, type_name) # NoName
             THEN ResolveTypeMethod(t, ReturnTypeOf(t, type_name), method_name, depth + 1)
        ELSE Returned(NoName)

\* _resolve_method_call
ResolveMethodCall(t, call_name, local_bindings, instance_vars) ==
    LET obj_name == <<Head(call_name)>>
        rest == Tail(call_name)
    IN  IF Len(call_name) < 2 THEN Returned(NoName)
        ELSE IF /\ obj_name = <<"self">> /\ Len(rest) >= 2
                /\ <<Head(rest)>> \in DOMAIN instance_vars
             THEN ResolveTypeMethod(t, instance_vars[<<Head(rest)>>], Tail(rest), 0)
        ELSE IF obj_name \in DOMAIN local_bindings
             THEN ResolveTypeMethod(t, local_bindings[obj_name], rest, 0)
        ELSE Returned(NoName)

\* _resolve_qualified_call: the longest prefix that is an import and leads to a symbol
ResolveQualifiedCall(t, call_name) ==
    LET candidate(i) == t.imports[SubSeq(call_name, 1, i)]
                            \o SubSeq(call_name, i + 1, Len(call_name))
        hits == {i \in 1..Len(call_name) :
                    /\ SubSeq(call_name, 1, i) \in DOMAIN t.imports
                    /\ candidate(i) \in DOMAIN t.symbols.map}
    IN  IF hits = {} THEN Returned(NoName)
        ELSE Returned(candidate(CHOOSE i \in hits : \A j \in hits : j <= i))

\* `instance_vars = class_symbol.instance_vars`: ClassSymbol has no such attribute
InstanceVarsOf(class_symbol) == "AttributeError"

\* PythonCallResolver.resolve
PyResolve(t, call_name, calling_symbol) ==
    LET md == calling_symbol.metadata
        parts == calling_symbol.qualified_name
        class_symbol == IF md.is_class_method /\ Len(parts) >= 2
                        THEN GetClass(t, <<parts[Len(parts) - 1]>>) ELSE NoName
        method_call == IF Len(call_name) > 1
                       THEN ResolveMethodCall(t, call_name, md.local_bindings, <<>>)
                       ELSE Returned(NoName)
        type_name == ResolveType(t, call_name)
        constructed == GetClass(t, call_name)
    IN  IF class_symbol # NoName THEN Raised(InstanceVarsOf(class_symbol))
        ELSE IF method_call.exc # "none" \/ method_call.value # NoName THEN method_call
        ELSE IF /\ call_name \in DOMAIN md.function_local_imports
                /\ md.function_local_imports[call_name] \in DOMAIN t.symbols.map
             THEN Returned(md.function_local_imports[call_name])
        ELSE IF type_name # NoName
             THEN IF /\ constructed # NoName
                     /\ <<"__init__">> \in DOMAIN t.classes[constructed].methods
                  THEN Returned(t.classes[constructed].methods[<<"__init__">>])
                  ELSE Returned(type_name)
        ELSE IF /\ call_name \in DOMAIN t.imports
                /\ t.imports[call_name] \in DOMAIN t.symbols.map
             THEN Returned(t.imports[call_name])
        ELSE IF t.module_name \o call_name \in DOMAIN t.symbols.map
             THEN Returned(t.module_name \o call_name)
        ELSE ResolveQualifiedCall(t, call_name)

(***************************************************************************)
(* resolve_calls: PythonAnalyzer.resolve_calls, ShellAnalyzer.resolve_calls *)
(***************************************************************************)
\* the inner loop over symbol.raw_calls: the list built, or the first exception
ResolveRawCalls(t, symbol) ==
    LET results == [i \in 1..Len(symbol.raw_calls) |-> PyResolve(t, symbol.raw_calls[i], symbol)]
        failed == {i \in 1..Len(results) : results[i].exc # "none"}
        hits == SelectSeq(results, LAMBDA r : r.value # NoName)
    IN  IF failed # {}
        THEN [exc |-> results[CHOOSE i \in failed : \A j \in failed : i <= j].exc,
              value |-> <<>>]
        ELSE [exc |-> "none", value |-> [i \in 1..Len(hits) |-> hits[i].value]]

\* mutant of StoreResolved: a run appends to what the symbol already holds
StoreResolvedAppending(symbol, resolved) ==
    [symbol EXCEPT !.resolved_calls = @ \o resolved]

\* `symbol.resolved_calls = resolved`
StoreResolved(symbol, resolved) == [symbol EXCEPT !.resolved_calls = resolved]

\* the outer loop, from the i-th symbol on: [exc, table]
RECURSIVE ResolveFrom(_, _)
ResolveFrom(t, i) ==
    IF i > Len(t.symbols.keys) THEN [exc |-> "none", table |-> t]
    ELSE LET qn == t.symbols.keys[i]
             r == ResolveRawCalls(t, t.symbols.map[qn])
         IN  IF r.exc # "none" THEN [exc |-> r.exc, table |-> t]
             ELSE ResolveFrom([t EXCEPT !.symbols.map[qn] = StoreResolved(@, r.value)], i + 1)

\* PythonAnalyzer.resolve_calls
PyResolveCalls(t) ==
    IF t.language # "python" THEN [exc |-> "none", table |-> t] ELSE ResolveFrom(t, 1)

\* ShellAnalyzer.resolve_calls: pass
ShResolveCalls(t) == [exc |-> "none", table |-> t]

(***************************************************************************)
(* The shell analyzer: shell/shell_analyzer.py                             *)
(*                                                                         *)
(* A script is [dirs, stem, readable, lines]; stem is the file name        *)
(* without its extension, split at its dots.  A line is                    *)
(* [kind, comment, flag, url, path, pipe, opt, target]:                    *)
(*   kind "curl": `curl -X <flag> <url>/<path>`, flag the text after -X    *)
(*     ("" when absent), url "http" for a literal http://localhost:8000 or *)
(*     "var" for $SERVER_URL, path the segments of the URL path; pipe is   *)
(*     the module the output is piped into with `| python3 -m <pipe>`, ""  *)
(*     when there is no pipe;                                              *)
(*   kind "python": `python3 <opt> <target>`, opt "-m" with a module name, *)
(*     "" with a script path ending in .py, "--version" without a target;  *)
(*   comment: the line starts with `# `.                                   *)
(* A raw call "HTTP:POST:/analyze" is <<"HTTP", "POST", path>>, a raw call *)
(* "PYTHON:json.tool" is <<"PYTHON", "json.tool">>.                        *)
(***************************************************************************)
\* what a python command is given to run: the directories and the dotted
\* name of a script path (scripts/report.py) or of a module (src.analyzer)
Target(dirs, name) == [dirs |-> dirs, name |-> name]

NoTarget == Target(<<>>, <<>>)

Curl(flag, url, path) ==
    [kind |-> "curl", comment |-> FALSE, flag |-> flag, url |-> url, path |-> path,
     pipe |-> "", opt |-> "", target |-> NoTarget]

\* `curl ... | python3 -m <module>`
Piped(line, module) == [line EXCEPT !.pipe = module]

\* `python3 <opt> <target>`
Python(opt, target) ==
    [kind |-> "python", comment |-> FALSE, flag |-> "", url |-> "", path |-> <<>>,
     pipe |-> "", opt |-> opt, target |-> target]

\* `# <line>`
Comment(line) == [line EXCEPT !.comment = TRUE]

\* the method chain of _extract_curl_commands
CurlMethod(line) == IF line.flag \in {"POST", "PUT", "DELETE", "PATCH"} THEN line.flag ELSE "GET"

\* `'curl' in segment`, over the path and module segments the scripts use
ContainsCurl(segment) == segment \in {"curl", "curl_health", "libcurl"}

\* `'curl' in line`: a curl command, or a python command whose target holds
\* the letters
CurlInLine(line) ==
    \/ line.kind = "curl"
    \/ \E segment \in Range(line.target.dirs) \cup Range(line.target.name) :
          ContainsCurl(segment)

\* the URL patterns: after a literal host (localhost:8000) the greedy [^\s"']+
\* takes every segment but the last, and with no path at all the fallback
\* pattern finds "//localhost"; after a variable the whole path is captured.
\* A line without URL is left to the fallback pattern (/[a-zA-Z0-9_/-]+): in
\* `python3 scripts/curl_health.py` it finds what lies between the first
\* slash and the first dot.
CurlPath(line) ==
    IF line.kind # "curl"
    THEN IF line.target.dirs = <<>> THEN <<>>
         ELSE Tail(line.target.dirs) \o SubSeq(line.target.name, 1, 1)
    ELSE IF line.url = "var" THEN line.path
    ELSE IF line.path = <<>> THEN <<"", "localhost">>
    ELSE LastSegment(line.path)

\* _extract_curl_commands: the lines that are no comment, hold `curl` and
\* yield a path
ExtractCurlCommands(lines) ==
    LET with_path == SelectSeq(lines, LAMBDA l : /\ ~l.comment
                                                 /\ CurlInLine(l)
                                                 /\ CurlPath(l) # <<>>)
    IN  [i \in 1..Len(with_path) |-> <<"HTTP", CurlMethod(with_path[i]), CurlPath(with_path[i])>>]

\* "scripts/" of scripts/report.py
RECURSIVE DirPrefix(_)
DirPrefix(dirs) == IF dirs = <<>> THEN "" ELSE dirs[1] \o "/" \o DirPrefix(Tail(dirs))

\* the text one of the two patterns of _extract_python_invocations captures
\* in a line, "" when neither matches: after `python -m` the module, which
\* ends at the first slash; else a path that ends in .py
PythonTarget(line) ==
    IF line.kind = "curl" THEN line.pipe
    ELSE IF line.opt = "-m"
    THEN IF line.target.dirs # <<>> THEN line.target.dirs[1] ELSE JoinDots(line.target.name)
    ELSE IF /\ line.opt = ""
            /\ Len(line.target.name) >= 2
            /\ line.target.name[Len(line.target.name)] = "py"
    THEN DirPrefix(line.target.dirs) \o JoinDots(line.target.name)
    ELSE ""

\* _extract_python_invocations: the lines that are no comment, hold `python`
\* and match `python -m <module>` or `python <script>.py`
ExtractPythonInvocations(lines) ==
    LET invoking == SelectSeq(lines, LAMBDA l : ~l.comment /\ PythonTarget(l) # "")
    IN  [i \in 1..Len(invoking) |-> <<"PYTHON", PythonTarget(invoking[i])>>]

\* _extract_commands: the HTTP calls of all lines, then the Python invocations
ExtractCommands(lines) == ExtractCurlCommands(lines) \o ExtractPythonInvocations(lines)

\* _script_to_qualified_name
ScriptToQualifiedName(file) == file.dirs \o file.stem

\* ShellAnalyzer.build_symbol_table
ShBuildSymbolTable(file) ==
    IF ~file.readable THEN ShellSymbolTable
    ELSE [ShellSymbolTable EXCEPT !.symbols =
             ODPut(@, ScriptToQualifiedName(file),
                   Symbol(FileName(file), ScriptToQualifiedName(file), "shell",
                          file.dirs \o <<FileName(file)>>,
                          <<>>, ExtractCommands(file.lines), TRUE, None))]

(***************************************************************************)
(* The per-file tables handed to the analyzers.                            *)
(***************************************************************************)
\* most statements in the body of the calling function
MaxBody == 2
\* most per-file tables in one merge
MaxTables == 2
\* most runs of resolve_calls on one table
MaxRuns == 2

NoArgMethod(name) == FunctionDef(name, <<"self">>, <<>>, NoName, <<>>)

Alias(name, qualified) == [name |-> name, qualified |-> qualified]

\* the statements of the calling function f: x = Foo(); x.bar(); g(); from b import g
Statements ==
    {Assign("x", <<"Foo">>), Expr(<<"x", "bar">>), Expr(<<"g">>), ImportFrom("g", <<"b", "g">>)}

\* a.py: f as a top-level function or as a method of class K, with or without a
\* class Foo of its own, importing nothing, Foo from b, or g from b
CallerFile(holder, body, imports, own_foo) ==
    [module |-> <<"a">>, path |-> <<"a.py">>, imports |-> imports,
     classes |-> (IF own_foo THEN <<ClassDef("Foo", <<NoArgMethod("bar")>>)>> ELSE <<>>)
                 \o (IF holder = "method"
                     THEN <<ClassDef("K", <<FunctionDef("f", <<"self">>, body, NoName, <<>>)>>)>>
                     ELSE <<>>),
     functions |-> IF holder = "function"
                   THEN <<FunctionDef("f", <<>>, body, NoName, <<>>)>> ELSE <<>>]

CallerFiles ==
    {CallerFile(h, b, i, o) :
        h \in {"function", "method"}, b \in SeqsUpTo(Statements, MaxBody),
        i \in {<<>>, <<Alias(<<"Foo">>, <<"b", "Foo">>)>>, <<Alias(<<"g">>, <<"b", "g">>)>>},
        o \in BOOLEAN}

\* b.py with class Foo (bar), with class Foo (__init__, bar), or with def g
\* and its docstring;
\* a/Foo.py with def bar, whose qualified name is that of method bar of a.Foo
LibFiles ==
    {[module |-> <<"b">>, path |-> <<"b.py">>, imports |-> <<>>,
      classes |-> <<ClassDef("Foo", <<NoArgMethod("bar")>>)>>, functions |-> <<>>],
     [module |-> <<"b">>, path |-> <<"b.py">>, imports |-> <<>>,
      classes |-> <<ClassDef("Foo", <<NoArgMethod("__init__"), NoArgMethod("bar")>>)>>,
      functions |-> <<>>],
     [module |-> <<"b">>, path |-> <<"b.py">>, imports |-> <<>>, classes |-> <<>>,
      functions |-> <<WithDocstring(FunctionDef("g", <<>>, <<>>, NoName, <<>>), "Does g.")>>],
     [module |-> <<"a", "Foo">>, path |-> <<"a", "Foo.py">>, imports |-> <<>>, classes |-> <<>>,
      functions |-> <<FunctionDef("bar", <<>>, <<Expr(<<"g">>)>>, NoName, <<>>)>>]}

\* a project: a.py and up to MaxTables - 1 other files, found before or after it
PyProjects ==
    {<<c>> \o l : c \in CallerFiles, l \in SeqsUpTo(LibFiles, MaxTables - 1)}
        \cup {l \o <<c>> : c \in CallerFiles, l \in SeqsUpTo(LibFiles, MaxTables - 1)}

\* scripts/analyze.sh and scripts.analyze.sh share a qualified name;
\* tools/run.sh: `python3 -m src.analyzer`, `# curl -X POST $SERVER_URL/analyze`,
\*   `curl $SERVER_URL/api/health | python3 -m json.tool`, `python3 --version`,
\*   `python3 scripts/report.py`, `python3 scripts/curl_health.py`,
\*   `python3 -m tools.libcurl`
ShFiles ==
    {[ext |-> "sh", dirs |-> <<"scripts">>, stem |-> <<"analyze">>, readable |-> TRUE,
      lines |-> <<Curl("POST", "http", <<"analyze">>)>>],
     [ext |-> "sh", dirs |-> <<>>, stem |-> <<"scripts", "analyze">>, readable |-> TRUE,
      lines |-> <<Curl("", "var", <<"api", "health">>)>>],
     [ext |-> "sh", dirs |-> <<"tools">>, stem |-> <<"run">>, readable |-> TRUE,
      lines |-> <<Python("-m", Target(<<>>, <<"src", "analyzer">>)),
                  Comment(Curl("POST", "var", <<"analyze">>)),
                  Piped(Curl("", "var", <<"api", "health">>), "json.tool"),
                  Python("--version", NoTarget),
                  Python("", Target(<<"scripts">>, <<"report", "py">>)),
                  Python("", Target(<<"scripts">>, <<"curl_health", "py">>)),
                  Python("-m", Target(<<>>, <<"tools", "libcurl">>))>>],
     [ext |-> "sh", dirs |-> <<"tools">>, stem |-> <<"setup">>, readable |-> TRUE,
      lines |-> <<>>],
     [ext |-> "sh", dirs |-> <<"tools">>, stem |-> <<"setup">>, readable |-> FALSE,
      lines |-> <<>>]}

ShProjects == SeqsUpTo(ShFiles, MaxTables)

(***************************************************************************)
(* The analyzers driven on their own: merge_symbol_tables on the per-file  *)
(* tables, then resolve_calls on the merged table, run after run.          *)
(***************************************************************************)
MergeSymbolTables(lang, tables) ==
    IF lang = "python" THEN PyMergeSymbolTables(tables) ELSE ShMergeSymbolTables(tables)

ResolveCallsOf(lang, t) == IF lang = "python" THEN PyResolveCalls(t) ELSE ShResolveCalls(t)

\* qualified_name -> resolved_calls over a table
ResolvedCallsOf(t) == [q \in DOMAIN t.symbols.map |-> t.symbols.map[q].resolved_calls]

TableIdle ==
    /\ language = "none"
    /\ file_tables = <<>>
    /\ merged = <<>>
    /\ after_first = <<>>
    /\ runs = 0
    /\ ppc = "idle"

\* the per-file tables exist: the visitor, or ShellAnalyzer.build_symbol_table, built them
TableBegin ==
    /\ \/ /\ language = "python"
          /\ \E p \in PyProjects : file_tables = [i \in 1..Len(p) |-> Visit(p[i])]
       \/ /\ language = "shell"
          /\ \E p \in ShProjects : file_tables = [i \in 1..Len(p) |-> ShBuildSymbolTable(p[i])]
    /\ merged = <<>>
    /\ after_first = <<>>
    /\ runs = 0
    /\ ppc = "tables"

\* merged = analyzer.merge_symbol_tables(tables)
MergeTables ==
    /\ ppc = "tables"
    /\ merged' = MergeSymbolTables(language, file_tables)
    /\ ppc' = "merged"
    /\ UNCHANGED <<language, file_tables, after_first, runs>>
    /\ UNCHANGED notTable

\* analyzer.resolve_calls(merged): returns, or raises with the symbols before the
\* failing one already updated
ResolveCalls ==
    /\ ppc \notin {"idle", "tables"}
    /\ runs < MaxRuns
    /\ LET r == ResolveCallsOf(language, merged)
       IN  /\ merged' = r.table
           /\ ppc' = IF r.exc = "none" THEN "resolved" ELSE r.exc
           /\ after_first' = IF runs = 0 THEN ResolvedCallsOf(r.table) ELSE after_first
    /\ runs' = runs + 1
    /\ UNCHANGED <<language, file_tables>>
    /\ UNCHANGED notTable

TableStep == MergeTables \/ ResolveCalls

(***************************************************************************)
(* The pipeline: orchestrator.py, core/cross_language_resolver.py,         *)
(* bridges/http_to_python.py                                               *)
(*                                                                         *)
(* A Python file on disk is [ext, dirs, stem, state, ast]: state is "ok",  *)
(* "syntax_error", "undecodable" or "unreadable", ast the file as Visit    *)
(* reads it.  A route "/api/analyze" is the sequence of its segments.      *)
(***************************************************************************)
PROJECT_ROOT == <<"/", "home", "proj">>

exclude_patterns ==
    {"venv", "node_modules", "__pycache__", ".git", ".pytest_cache", ".mypy_cache",
     "build", "dist"}

\* part.startswith('.'), over the path segments the projects use
StartsWithDot(part) ==
    part \in {".git", ".pytest_cache", ".mypy_cache", ".cache", ".local", ".env.py"}

\* Path.parts of the absolute path of a file: the segments of the root of the
\* orchestrator, the directories below it, and the file name
PathParts(root, file) == root \o file.dirs \o <<FileName(file)>>

\* FlowDiffOrchestrator._should_include_file
ShouldIncludeFile(root, file) ==
    \A part \in Range(PathParts(root, file)) :
        ~StartsWithDot(part) /\ part \notin exclude_patterns

\* FlowDiffOrchestrator._discover_files: rglob('*.py'), then rglob('*.sh')
DiscoverFilesOf(root, on_disk) ==
    SelectSeq(on_disk, LAMBDA f : f.ext = "py" /\ ShouldIncludeFile(root, f))
        \o SelectSeq(on_disk, LAMBDA f : f.ext = "sh" /\ ShouldIncludeFile(root, f))

\* LanguageRegistry.get_analyzer_for_file with get_language_name
LanguageOf(file) == IF file.ext = "py" THEN "python" ELSE "shell"

\* FlowDiffOrchestrator._group_by_language: the languages in order of first
\* appearance, and the files of each
GroupByLanguage(found) ==
    [order |-> (IF \E i \in 1..Len(found) : LanguageOf(found[i]) = "python"
                THEN <<"python">> ELSE <<>>)
               \o (IF \E i \in 1..Len(found) : LanguageOf(found[i]) = "shell"
                   THEN <<"shell">> ELSE <<>>),
     python |-> SelectSeq(found, LAMBDA f : LanguageOf(f) = "python"),
     shell |-> SelectSeq(found, LAMBDA f : LanguageOf(f) = "shell")]

\* PythonAnalyzer._path_to_module
PathToModule(file) == file.dirs \o file.stem

\* `PythonASTVisitor(symbol_table, file_path, source)`: __init__ takes two arguments
NewVisitorWithSource == "TypeError"

\* PythonAnalyzer.build_symbol_table: [exc, table]
PyBuildSymbolTable(file) ==
    IF file.state = "unreadable"
    THEN [exc |-> "OSError", table |-> PythonSymbolTable(PathToModule(file))]
    ELSE IF file.state \in {"syntax_error", "undecodable"}
    THEN [exc |-> "none", table |-> PythonSymbolTable(PathToModule(file))]
    ELSE IF NewVisitorWithSource = "TypeError"
    THEN [exc |-> "TypeError", table |-> PythonSymbolTable(PathToModule(file))]
    ELSE [exc |-> "none",
          table |-> Visit([file.ast EXCEPT !.module = PathToModule(file),
                                           !.path = file.dirs \o <<FileName(file)>>])]

\* the first exception raised while the files of one language are built, in file
\* order, ends the loop: [exc, tables]
FirstFailure(built) ==
    LET failed == {i \in 1..Len(built) : built[i].exc # "none"}
    IN  IF failed # {}
        THEN [exc |-> built[CHOOSE i \in failed : \A j \in failed : i <= j].exc, tables |-> <<>>]
        ELSE [exc |-> "none", tables |-> [i \in 1..Len(built) |-> built[i].table]]

\* analyzer.build_symbol_table over the files of one language: [exc, tables]
BuildTablesOf(lang, lang_files) ==
    FirstFailure([i \in 1..Len(lang_files) |->
                     IF lang = "python" THEN PyBuildSymbolTable(lang_files[i])
                     ELSE [exc |-> "none", table |-> ShBuildSymbolTable(lang_files[i])]])

\* symbol_tables[lang] = analyzer.merge_symbol_tables(tables), unless a build raised
MergeBuilt(tables, lang, b) ==
    IF b.exc # "none" THEN tables ELSE Put(tables, lang, MergeSymbolTables(lang, b.tables))

\* Step 3 of analyze(): per language, build every file's table and merge them;
\* the first exception ends the run.  [exc, symbol_tables]
RECURSIVE BuildSymbolTables(_, _, _, _)
BuildSymbolTables(groups, i, exc, tables) ==
    IF i > Len(groups.order) \/ exc # "none" THEN [exc |-> exc, symbol_tables |-> tables]
    ELSE BuildSymbolTables(groups, i + 1,
             BuildTablesOf(groups.order[i], groups[groups.order[i]]).exc,
             MergeBuilt(tables, groups.order[i],
                        BuildTablesOf(groups.order[i], groups[groups.order[i]])))

\* the exception one of the resolve_calls raised, and the tables: [exc, symbol_tables]
Resolved(r) ==
    [exc |-> IF \E lang \in DOMAIN r : r[lang].exc # "none"
             THEN r[CHOOSE lang \in DOMAIN r : r[lang].exc # "none"].exc ELSE "none",
     symbol_tables |-> [lang \in DOMAIN r |-> r[lang].table]]

\* Step 4 of analyze(): resolve_calls on every language table.  [exc, symbol_tables]
ResolveAllCalls(tables) ==
    Resolved([lang \in DOMAIN tables |-> ResolveCallsOf(lang, tables[lang])])

\* name.startswith("test_"), over the names the projects use
StartsWithTest(name) == name \in {"test_api", "test_api.py"}

\* Path(symbol.file_path).name
FileNameOf(file_path) == file_path[Len(file_path)]

\* PythonAnalyzer.mark_entry_points
PyMarkEntryPoints(t) ==
    LET m == t.symbols.map
    IN  [t EXCEPT !.symbols.map = [q \in DOMAIN m |->
            IF m[q].is_entry_point THEN m[q]
            ELSE IF MetaGet(m[q].metadata, "http_method") \notin {None, ""}
                 THEN [m[q] EXCEPT !.is_entry_point = TRUE]
            ELSE IF StartsWithTest(m[q].name) \/ StartsWithTest(FileNameOf(m[q].file_path))
                 THEN [m[q] EXCEPT !.is_entry_point = TRUE]
            ELSE m[q]]]

\* Step 4.5 of analyze(): only the Python analyzer has mark_entry_points
MarkAllEntryPoints(tables) ==
    [lang \in DOMAIN tables |->
        IF lang = "python" THEN PyMarkEntryPoints(tables[lang]) ELSE tables[lang]]

\* len(table): a table without symbols is falsy
IsEmptyTable(tables, lang) ==
    lang \notin DOMAIN tables \/ tables[lang].symbols.keys = <<>>

\* HTTPToPythonBridge._build_endpoint_map: <<method, route>> -> handler, a later
\* symbol with the same method and route replacing the earlier one
RECURSIVE BuildEndpointMap(_, _, _)
BuildEndpointMap(t, i, endpoint_map) ==
    IF i > Len(t.symbols.keys) THEN endpoint_map
    ELSE LET symbol == t.symbols.map[t.symbols.keys[i]]
             md == symbol.metadata
         IN  BuildEndpointMap(t, i + 1,
                 IF /\ MetaGet(md, "http_method") \notin {None, ""}
                    /\ "http_route" \in DOMAIN md
                    /\ md.http_route # <<>>
                 THEN Put(endpoint_map, <<md.http_method, md.http_route>>,
                          symbol.qualified_name)
                 ELSE endpoint_map)

\* the handlers the HTTP raw calls of one shell symbol hit, in raw-call order
BridgedCalls(symbol, endpoint_map) ==
    LET hits == SelectSeq(symbol.raw_calls,
                    LAMBDA c : /\ Len(c) = 3
                               /\ c[1] = "HTTP"
                               /\ <<c[2], c[3]>> \in DOMAIN endpoint_map)
    IN  [i \in 1..Len(hits) |-> endpoint_map[<<hits[i][2], hits[i][3]>>]]

\* HTTPToPythonBridge.resolve
BridgeResolve(tables) ==
    IF IsEmptyTable(tables, "python") \/ IsEmptyTable(tables, "shell") THEN <<>>
    ELSE LET endpoint_map == BuildEndpointMap(tables["python"], 1, <<>>)
             sh == tables["shell"].symbols.map
         IN  IF endpoint_map = <<>> THEN <<>>
             ELSE [q \in {s \in DOMAIN sh : BridgedCalls(sh[s], endpoint_map) # <<>>} |->
                      BridgedCalls(sh[q], endpoint_map)]

\* The bridges a resolver can hold: the one the orchestrator registers, and
\* stand-ins for other LanguageBridge implementations, one whose resolve raises
\* and one whose resolve returns the references it was made with.
HTTPToPythonBridge == [name |-> "HTTPToPythonBridge", refs |-> <<>>]

RaisingBridge == [name |-> "RaisingBridge", refs |-> <<>>]

StubBridge(refs) == [name |-> "StubBridge", refs |-> refs]

\* bridge.resolve(symbol_tables): [exc, refs]
BridgeOutcome(bridge, tables) ==
    IF bridge.name = "HTTPToPythonBridge" THEN [exc |-> "none", refs |-> BridgeResolve(tables)]
    ELSE IF bridge.name = "RaisingBridge" THEN [exc |-> "RuntimeError", refs |-> <<>>]
    ELSE [exc |-> "none", refs |-> bridge.refs]

\* `cross_refs[source].extend(targets)` for every source of refs
MergeRefs(refs_so_far, refs) ==
    [source \in DOMAIN refs_so_far \cup DOMAIN refs |->
        (IF source \in DOMAIN refs_so_far THEN refs_so_far[source] ELSE <<>>)
            \o (IF source \in DOMAIN refs THEN refs[source] ELSE <<>>)]

\* mutant of MergeCaught: a bridge that raises empties what was collected
MergeCaughtDropsAll(refs_so_far, outcome) ==
    IF outcome.exc # "none" THEN <<>> ELSE MergeRefs(refs_so_far, outcome.refs)

\* the body of the loop over the bridges: try ... except Exception
MergeCaught(refs_so_far, outcome) ==
    IF outcome.exc # "none" THEN refs_so_far ELSE MergeRefs(refs_so_far, outcome.refs)

\* CrossLanguageResolver.resolve_cross_language_calls
RECURSIVE ResolveCrossLanguageCalls(_, _, _, _)
ResolveCrossLanguageCalls(registered, i, tables, refs_so_far) ==
    IF i > Len(registered) THEN refs_so_far
    ELSE ResolveCrossLanguageCalls(registered, i + 1, tables,
             MergeCaught(refs_so_far, BridgeOutcome(registered[i], tables)))

\* mutant of ApplyCrossRefsTo: the targets replace resolved_calls
ApplyCrossRefsReplacing(tables, refs) ==
    [lang \in DOMAIN tables |->
        LET m == tables[lang].symbols.map
        IN  [tables[lang] EXCEPT !.symbols.map = [q \in DOMAIN m |->
                IF q \in DOMAIN refs
                THEN [m[q] EXCEPT !.resolved_calls = refs[q]]
                ELSE m[q]]]]

\* CrossLanguageResolver.apply_cross_refs
ApplyCrossRefsTo(tables, refs) ==
    [lang \in DOMAIN tables |->
        LET m == tables[lang].symbols.map
        IN  [tables[lang] EXCEPT !.symbols.map = [q \in DOMAIN m |->
                IF q \in DOMAIN refs
                THEN [m[q] EXCEPT !.resolved_calls = @ \o refs[q]]
                ELSE m[q]]]]

(***************************************************************************)
(* analyze(): the projects it is run on, and its steps.                    *)
(***************************************************************************)
Decorator(attr, path, method) == [attr |-> attr, path |-> path, method |-> method]

PyFile(dirs, stem, state, functions) ==
    [ext |-> "py", dirs |-> dirs, stem |-> stem, state |-> state,
     ast |-> [module |-> dirs \o stem, path |-> dirs \o <<JoinDots(stem) \o ".py">>,
              imports |-> <<>>, classes |-> <<>>, functions |-> functions]]

\* api.py with the handler `@app.post("/analyze") def analyze`, util.py with a
\* plain function, a file with a syntax error, one that is not UTF-8, one that
\* cannot be opened, and a valid file inside a virtual environment
PyFiles ==
    {PyFile(<<>>, <<"api">>, "ok",
            <<FunctionDef("analyze", <<>>, <<>>, NoName,
                          <<Decorator("post", <<"analyze">>, "")>>)>>),
     PyFile(<<>>, <<"util">>, "ok", <<FunctionDef("helper", <<>>, <<>>, NoName, <<>>)>>),
     PyFile(<<>>, <<"broken">>, "syntax_error", <<>>),
     PyFile(<<>>, <<"binary">>, "undecodable", <<>>),
     PyFile(<<>>, <<"locked">>, "unreadable", <<>>),
     PyFile(<<"venv">>, <<"lib">>, "ok", <<FunctionDef("helper", <<>>, <<>>, NoName, <<>>)>>)}

\* the sequences of at most n distinct files of S, no path occurring twice
FileLists(S, n) ==
    {s \in SeqsUpTo(S, n) :
        \A i, j \in 1..Len(s) : i # j => PathParts(PROJECT_ROOT, s[i]) # PathParts(PROJECT_ROOT, s[j])}

\* a project directory: its Python files and its scripts, each in rglob order
Projects == {p \o s : p \in FileLists(PyFiles, MaxTables), s \in FileLists(ShFiles, MaxTables)}

\* one entry of the stage log
Stage(stage, on) == [stage |-> stage, on |-> on]

\* mutant of BuildStages: the merge ahead of the build
RECURSIVE BuildStagesMergeFirst(_, _)
BuildStagesMergeFirst(groups, i) ==
    IF i > Len(groups.order) THEN <<>>
    ELSE IF BuildTablesOf(groups.order[i], groups[groups.order[i]]).exc # "none"
    THEN <<Stage("build", groups.order[i])>>
    ELSE <<Stage("merge", groups.order[i]), Stage("build", groups.order[i])>>
             \o BuildStagesMergeFirst(groups, i + 1)

\* the stages step 3 runs: per language the build of its files, then, unless the
\* build raised, the merge
RECURSIVE BuildStages(_, _)
BuildStages(groups, i) ==
    IF i > Len(groups.order) THEN <<>>
    ELSE IF BuildTablesOf(groups.order[i], groups[groups.order[i]]).exc # "none"
    THEN <<Stage("build", groups.order[i])>>
    ELSE <<Stage("build", groups.order[i]), Stage("merge", groups.order[i])>>
             \o BuildStages(groups, i + 1)

\* the stages step 4 runs: resolve_calls per language, up to the one that raises
RECURSIVE ResolveStages(_, _, _)
ResolveStages(order, i, r) ==
    IF i > Len(order) THEN <<>>
    ELSE IF r[order[i]].exc # "none" THEN <<Stage("resolve", order[i])>>
    ELSE <<Stage("resolve", order[i])>> \o ResolveStages(order, i + 1, r)

\* language -> qualified_name -> resolved_calls
ResolvedCallsOfAll(tables) == [lang \in DOMAIN tables |-> ResolvedCallsOf(tables[lang])]

AnalyzeIdle ==
    /\ project_root = <<>>
    /\ project = <<>>
    /\ files = <<>>
    /\ files_by_lang = <<>>
    /\ symbol_tables = <<>>
    /\ cross_refs = <<>>
    /\ bridges = <<>>
    /\ after_intra = <<>>
    /\ stages = <<>>
    /\ apc = "idle"

\* self.resolver.bridges: the bridge the constructor registers, and those the
\* caller registered after it on orchestrator.resolver: one that reports that
\* scripts/analyze.sh calls util.helper, alone or behind one that raises
RegisteredBridges ==
    {<<HTTPToPythonBridge>>,
     <<HTTPToPythonBridge,
       StubBridge([source \in {<<"scripts", "analyze">>} |-> <<<<"util", "helper">>>>])>>,
     <<HTTPToPythonBridge, RaisingBridge,
       StubBridge([source \in {<<"scripts", "analyze">>} |-> <<<<"util", "helper">>>>])>>}

\* FlowDiffOrchestrator(project_root).analyze() is called
AnalyzeBegin ==
    /\ project_root = PROJECT_ROOT
    /\ project \in Projects
    /\ files = <<>>
    /\ files_by_lang = <<>>
    /\ symbol_tables = <<>>
    /\ cross_refs = <<>>
    /\ bridges \in RegisteredBridges
    /\ after_intra = <<>>
    /\ stages = <<>>
    /\ apc = "start"

\* Step 1: files = self._discover_files()
DiscoverFiles ==
    /\ apc = "start"
    /\ files' = DiscoverFilesOf(project_root, project)
    /\ apc' = "discovered"
    /\ stages' = Append(stages, Stage("discover", "all"))
    /\ UNCHANGED <<project_root, project, files_by_lang, symbol_tables, cross_refs, bridges,
                   after_intra>>
    /\ UNCHANGED notAnalyze

\* Step 2: files_by_lang = self._group_by_language(files)
GroupFiles ==
    /\ apc = "discovered"
    /\ files_by_lang' = GroupByLanguage(files)
    /\ apc' = "grouped"
    /\ stages' = Append(stages, Stage("group", "all"))
    /\ UNCHANGED <<project_root, project, files, symbol_tables, cross_refs, bridges,
                   after_intra>>
    /\ UNCHANGED notAnalyze

\* Step 3: build and merge the tables of each language
BuildTables ==
    /\ apc = "grouped"
    /\ LET b == BuildSymbolTables(files_by_lang, 1, "none", <<>>)
       IN  /\ symbol_tables' = b.symbol_tables
           /\ apc' = IF b.exc = "none" THEN "built" ELSE b.exc
    /\ stages' = stages \o BuildStages(files_by_lang, 1)
    /\ UNCHANGED <<project_root, project, files, files_by_lang, cross_refs, bridges,
                   after_intra>>
    /\ UNCHANGED notAnalyze

\* Step 4: analyzer.resolve_calls(table) for every language
ResolveIntraLanguage ==
    /\ apc = "built"
    /\ LET r == ResolveAllCalls(symbol_tables)
       IN  /\ symbol_tables' = r.symbol_tables
           /\ apc' = IF r.exc = "none" THEN "resolved" ELSE r.exc
           /\ after_intra' = ResolvedCallsOfAll(r.symbol_tables)
    /\ stages' = stages \o ResolveStages(files_by_lang.order, 1,
                     [lang \in DOMAIN symbol_tables |-> ResolveCallsOf(lang, symbol_tables[lang])])
    /\ UNCHANGED <<project_root, project, files, files_by_lang, cross_refs, bridges>>
    /\ UNCHANGED notAnalyze

\* Step 4.5: analyzer.mark_entry_points(table)
MarkEntryPoints ==
    /\ apc = "resolved"
    /\ symbol_tables' = MarkAllEntryPoints(symbol_tables)
    /\ apc' = "marked"
    /\ stages' = stages \o SelectSeq(<<Stage("mark", "python")>>,
                                     LAMBDA e : e.on \in DOMAIN symbol_tables)
    /\ UNCHANGED <<project_root, project, files, files_by_lang, cross_refs, bridges,
                   after_intra>>
    /\ UNCHANGED notAnalyze

\* Step 5: cross_refs = self.resolver.resolve_cross_language_calls(symbol_tables)
ResolveCrossLanguage ==
    /\ apc = "marked"
    /\ cross_refs' = ResolveCrossLanguageCalls(bridges, 1, symbol_tables, <<>>)
    /\ apc' = "bridged"
    /\ stages' = stages \o [i \in 1..Len(bridges) |-> Stage("bridge", bridges[i].name)]
    /\ UNCHANGED <<project_root, project, files, files_by_lang, symbol_tables, bridges,
                   after_intra>>
    /\ UNCHANGED notAnalyze

\* self.resolver.apply_cross_refs(symbol_tables, cross_refs); return symbol_tables
ApplyCrossRefs ==
    /\ apc = "bridged"
    /\ symbol_tables' = ApplyCrossRefsTo(symbol_tables, cross_refs)
    /\ apc' = "returned"
    /\ stages' = Append(stages, Stage("apply", "all"))
    /\ UNCHANGED <<project_root, project, files, files_by_lang, cross_refs, bridges,
                   after_intra>>
    /\ UNCHANGED notAnalyze

AnalyzeStep ==
    \/ DiscoverFiles
    \/ GroupFiles
    \/ BuildTables
    \/ ResolveIntraLanguage
    \/ MarkEntryPoints
    \/ ResolveCrossLanguage
    \/ ApplyCrossRefs

(***************************************************************************)
(* analyze_diff: git/diff_analyzer.py, git/symbol_change_mapper.py         *)
(*                                                                         *)
(* A directory state (the tree of commit HEAD, the working tree) is the    *)
(* list of its files.  map_changes analyses each side it compares with an  *)
(* orchestrator of its own: a commit in a temporary checkout, the working  *)
(* tree in place.                                                          *)
(***************************************************************************)
\* scripts/analyze.sh
AnalyzeScript == CHOOSE f \in ShFiles : f.dirs = <<"scripts">>

\* what the directory states hold: scripts/analyze.sh as above or with another
\* curl command, tools/setup.sh, util.py with a function, and broken.py, which
\* does not parse
DiffFiles ==
    <<AnalyzeScript,
      [AnalyzeScript EXCEPT !.lines = <<Curl("", "var", <<"api", "health">>)>>],
      [ext |-> "sh", dirs |-> <<"tools">>, stem |-> <<"setup">>, readable |-> TRUE,
       lines |-> <<>>],
      PyFile(<<>>, <<"util">>, "ok", <<FunctionDef("helper", <<>>, <<>>, NoName, <<>>)>>),
      PyFile(<<>>, <<"broken">>, "syntax_error", <<>>)>>

\* most files in one directory state
MaxDirFiles == 2

\* the elements of l at the indices in I, in the order of l
SubList(l, I) ==
    LET upto[i \in 0..Len(l)] ==
            IF i = 0 THEN <<>>
            ELSE IF i \in I THEN Append(upto[i - 1], l[i]) ELSE upto[i - 1]
    IN  upto[Len(l)]

\* the directory states: at most MaxDirFiles of the files, no path twice
DiffDirs ==
    {SubList(DiffFiles, I) :
        I \in {J \in SUBSET (1..Len(DiffFiles)) :
                  /\ Cardinality(J) <= MaxDirFiles
                  /\ \A i, j \in J :
                        i # j => PathParts(<<>>, DiffFiles[i]) # PathParts(<<>>, DiffFiles[j])}}

\* `Path(tmpdir) / "checkout"` of a tempfile.TemporaryDirectory()
CHECKOUT_ROOT == <<"/", "tmp", "tmpab12cd34", "checkout">>

\* Op applied to the value of v, which is computed once
With(v, Op(_)) == CHOOSE r \in {Op(x) : x \in {v}} : TRUE

\* FlowDiffOrchestrator(root).analyze() on a directory holding on_disk, with
\* the bridge the constructor registers, step after step: [exc, symbol_tables]
Analyze(root, on_disk) ==
    With(GroupByLanguage(DiscoverFilesOf(root, on_disk)), LAMBDA groups :
    With(BuildSymbolTables(groups, 1, "none", <<>>), LAMBDA built :
        IF built.exc # "none" THEN [exc |-> built.exc, symbol_tables |-> <<>>]
        ELSE
    With(ResolveAllCalls(built.symbol_tables), LAMBDA resolved :
        IF resolved.exc # "none" THEN [exc |-> resolved.exc, symbol_tables |-> <<>>]
        ELSE
    With(MarkAllEntryPoints(resolved.symbol_tables), LAMBDA marked :
    With(ResolveCrossLanguageCalls(<<HTTPToPythonBridge>>, 1, marked, <<>>), LAMBDA refs :
        [exc |-> "none", symbol_tables |-> ApplyCrossRefsTo(marked, refs)])))))

\* `all_symbols[symbol.qualified_name] = symbol` over symbol_tables.values():
\* the Python table first, a script of the same qualified name replacing a
\* function
AllSymbols(tables) ==
    Update(IF "python" \in DOMAIN tables THEN tables["python"].symbols.map ELSE <<>>,
           IF "shell" \in DOMAIN tables THEN tables["shell"].symbols.map ELSE <<>>)

\* what an analysis gives map_changes: [exc, symbols]
SymbolsOf(analysis) ==
    IF analysis.exc # "none" THEN [exc |-> analysis.exc, symbols |-> <<>>]
    ELSE [exc |-> "none", symbols |-> AllSymbols(analysis.symbol_tables)]

\* One git archive | tar extraction into a temporary directory
Extraction(stage, side, sha) == [stage |-> stage, side |-> side, ref |-> sha]

\* the two processes of one extraction, `git archive ref | tar -x -C tmp`,
\* with the timeouts of the waits on git archive and on tar
ArchiveProcs(stage, sha, archive_timeout, tar_timeout) ==
    <<Proc("git archive", stage, <<sha>>, archive_timeout),
      Proc("tar", stage, <<sha>>, tar_timeout)>>

\* _build_symbol_table_at_ref: `git archive ref | tar -x` into the checkout,
\* started with subprocess.Popen and subprocess.run(check=True) and no
\* timeout, then the analysis of the checkout: [exc, symbols].  An extraction
\* whose git archive or tar exits non-zero ends in the CalledProcessError of
\* tar: tar is the first to be waited for, and it rejects what a failed git
\* archive wrote.  One whose process never exits is waited for for ever
\* ("waiting").
BuildSymbolTableAtRef(sha) ==
    IF FirstBad(ArchiveProcs("map_changes", sha, NoTimeout, NoTimeout)) # 0
    THEN [exc |-> IF faulty.how = "fails" THEN "CalledProcessError" ELSE "waiting",
          symbols |-> <<>>]
    ELSE SymbolsOf(Analyze(CHECKOUT_ROOT, repo_head))

\* _build_current_symbol_table: the analysis of the working tree
BuildCurrentSymbolTable == SymbolsOf(Analyze(PROJECT_ROOT, repo_working))

\* `before_symbols = self._build_symbol_table_at_ref(before_ref) if before_ref else {}`
BeforeSymbolsOf(b) ==
    IF b # None THEN BuildSymbolTableAtRef(b) ELSE [exc |-> "none", symbols |-> <<>>]

\* `after_symbols = ... if after_ref else self._build_current_symbol_table()`
AfterSymbolsOf(a) == IF a # None THEN BuildSymbolTableAtRef(a) ELSE BuildCurrentSymbolTable

\* mutants of _symbols_differ: line numbers compared too; call lists compared as lists
SymbolsDifferWithLine(b, a) ==
    \/ b.metadata # a.metadata
    \/ Range(b.resolved_calls) # Range(a.resolved_calls)
    \/ b.documentation # a.documentation
    \/ b.line_number # a.line_number

SymbolsDifferByList(b, a) ==
    \/ b.metadata # a.metadata
    \/ b.resolved_calls # a.resolved_calls
    \/ b.documentation # a.documentation

\* SymbolChangeMapper._symbols_differ
SymbolsDiffer(b, a) ==
    \/ b.metadata # a.metadata
    \/ Range(b.resolved_calls) # Range(a.resolved_calls)
    \/ b.documentation # a.documentation

\* SymbolChangeMapper.map_changes, the two loops over the universes
MapChanges(bs, as) ==
    LET changed == {q \in DOMAIN bs : q \in DOMAIN as => SymbolsDiffer(bs[q], as[q])}
        added   == {q \in DOMAIN as : q \notin DOMAIN bs}
    IN  [q \in changed \cup added |->
            IF q \in added THEN "A"
            ELSE IF q \in DOMAIN as THEN "M"
            ELSE "D"]

\* the processes resolve(ref) starts
ResolveProcs(ref) == IF ref = WORKING_TREE_MARKER THEN <<>> ELSE <<RevParseProc(ref)>>

\* the references on the command line of git diff
DiffRefs(b, a) == SelectSeq(<<b, a>>, LAMBDA r : r # None)

\* run_command(cmd, cwd=project_root, description="Get changed files")
DiffProc(b, a) == Proc("git diff", "detect", DiffRefs(b, a), SUBPROCESS_DEFAULT_TIMEOUT)

\* the processes map_changes starts: one extraction per side that has a
\* commit, the after side's when the before side raised nothing
MapProcs(b, a) ==
    (IF b # None THEN ArchiveProcs("map_changes", b, NoTimeout, NoTimeout) ELSE <<>>)
        \o (IF a # None /\ BeforeSymbolsOf(b).exc = "none"
            THEN ArchiveProcs("map_changes", a, NoTimeout, NoTimeout) ELSE <<>>)

\* the processes _build_tree_at_ref starts through run_piped_commands: tar is
\* waited for by communicate(timeout=timeout), then each process in turn by
\* proc.wait(), which has no timeout
TreeProcs(sha) ==
    IF sha = None \/ sha = WORKING_TREE_MARKER THEN <<>>
    ELSE ArchiveProcs("build_tree", sha, NoTimeout, SUBPROCESS_DEFAULT_TIMEOUT)

\* the extractions map_changes performs
MapExtractions(b, a) ==
    (IF b # None THEN <<Extraction("map_changes", "before", b)>> ELSE <<>>)
        \o (IF a # None /\ BeforeSymbolsOf(b).exc = "none"
            THEN <<Extraction("map_changes", "after", a)>> ELSE <<>>)

\* _build_tree_at_ref extracts when the side has a commit, before it analyses
TreeExtractions(side, sha) ==
    IF sha = None \/ sha = WORKING_TREE_MARKER THEN <<>>
    ELSE <<Extraction("build_tree", side, sha)>>

\* `adapter.orchestrator.analyze(context=context)`: analyze() takes no such argument
AnalyzeWithContext == "TypeError"

\* GitDiffAnalyzer._calculate_stats
CalculateStats(sc) ==
    [functions_added     |-> Cardinality({q \in DOMAIN sc : sc[q] = "A"}),
     functions_deleted   |-> Cardinality({q \in DOMAIN sc : sc[q] = "D"}),
     functions_modified  |-> Cardinality({q \in DOMAIN sc : sc[q] = "M"}),
     functions_unchanged |-> 0]

DiffIdle ==
    /\ repo_head = <<>>
    /\ repo_working = <<>>
    /\ before = None
    /\ after = None
    /\ before_sha = None
    /\ after_sha = None
    /\ diff_cmd = <<>>
    /\ before_symbols = <<>>
    /\ after_symbols = <<>>
    /\ symbol_changes = <<>>
    /\ extractions = <<>>
    /\ is_git = FALSE
    /\ faulty = NoFault
    /\ procs = <<>>
    /\ failure = NoFailure
    /\ dpc = "idle"

\* nothing of analyze_diff has run
DiffFresh ==
    /\ before_sha = None
    /\ after_sha = None
    /\ diff_cmd = <<>>
    /\ before_symbols = <<>>
    /\ after_symbols = <<>>
    /\ symbol_changes = <<>>
    /\ extractions = <<>>
    /\ procs = <<>>
    /\ failure = NoFailure
    /\ dpc = "new"

\* GitDiffAnalyzer(project_root).analyze_diff(before, after) is called on a
\* repository whose commands all exit
DiffBegin ==
    /\ repo_head \in DiffDirs
    /\ repo_working \in DiffDirs
    /\ before \in RefStrings
    /\ after \in RefStrings
    /\ is_git = TRUE
    /\ faulty = NoFault
    /\ DiffFresh

\* the same call on a directory holding scripts/analyze.sh that is a
\* repository or not, with a command that misbehaves or none; a directory
\* without .git has no commit
ExecBegin ==
    /\ is_git \in BOOLEAN
    /\ repo_head = IF is_git THEN <<AnalyzeScript>> ELSE <<>>
    /\ repo_working = <<AnalyzeScript>>
    /\ before \in RefStrings
    /\ after \in RefStrings
    /\ faulty \in Faults
    /\ DiffFresh

\* `GitDiffAnalyzer(project_root)`: GitRefResolver.__init__ verifies the repository
Construct ==
    /\ dpc = "new"
    /\ IF is_git
       THEN dpc' = "start" /\ UNCHANGED failure
       ELSE /\ dpc' = "ValueError"
            /\ failure' = Failure("ValueError", None, <<ProjectRootStr>>)
    /\ UNCHANGED <<repo_head, repo_working, before, after, before_sha, after_sha, diff_cmd,
                   before_symbols, after_symbols, symbol_changes, extractions,
                   is_git, faulty, procs>>
    /\ UNCHANGED notDiff

\* `before_sha = self.ref_resolver.resolve(before)`
ResolveBefore ==
    /\ dpc = "start"
    /\ procs' = procs \o ResolveProcs(before)
    /\ IF Resolve(before) = "ValueError"
       THEN /\ dpc' = "ValueError"
            /\ failure' = Failure("ValueError", "git rev-parse", <<before>>)
            /\ UNCHANGED before_sha
       ELSE /\ dpc' = "before_resolved"
            /\ before_sha' = Resolve(before)
            /\ UNCHANGED failure
    /\ UNCHANGED <<repo_head, repo_working, before, after, after_sha, diff_cmd,
                   before_symbols, after_symbols, symbol_changes, extractions,
                   is_git, faulty>>
    /\ UNCHANGED notDiff

\* `after_sha = self.ref_resolver.resolve(after)`
ResolveAfter ==
    /\ dpc = "before_resolved"
    /\ procs' = procs \o ResolveProcs(after)
    /\ IF Resolve(after) = "ValueError"
       THEN /\ dpc' = "ValueError"
            /\ failure' = Failure("ValueError", "git rev-parse", <<after>>)
            /\ UNCHANGED after_sha
       ELSE /\ dpc' = "resolved"
            /\ after_sha' = Resolve(after)
            /\ UNCHANGED failure
    /\ UNCHANGED <<repo_head, repo_working, before, after, before_sha, diff_cmd,
                   before_symbols, after_symbols, symbol_changes, extractions,
                   is_git, faulty>>
    /\ UNCHANGED notDiff

\* `file_changes = self.file_detector.get_changed_files(before_sha, after_sha)`:
\* ValueError without a reference, SubprocessError from run_command
DetectFileChanges ==
    /\ dpc = "resolved"
    /\ IF GetChangedFiles(before_sha, after_sha) = "ValueError"
       THEN /\ dpc' = "ValueError"
            /\ failure' = Failure("ValueError", None, <<>>)
            /\ UNCHANGED <<diff_cmd, procs>>
       ELSE /\ procs' = Append(procs, DiffProc(before_sha, after_sha))
            /\ IF Outcome(DiffProc(before_sha, after_sha)) # "ok"
               THEN /\ dpc' = "SubprocessError"
                    /\ failure' = Failure("SubprocessError", "git diff",
                                          DiffRefs(before_sha, after_sha))
                    /\ UNCHANGED diff_cmd
               ELSE /\ dpc' = "detected"
                    /\ diff_cmd' = GetChangedFiles(before_sha, after_sha)
                    /\ UNCHANGED failure
    /\ UNCHANGED <<repo_head, repo_working, before, after, before_sha, after_sha,
                   before_symbols, after_symbols, symbol_changes, extractions,
                   is_git, faulty>>
    /\ UNCHANGED notDiff

\* the exception map_changes ends with, as analyze_diff's caller sees it
MapFailure(exc) ==
    IF exc = "CalledProcessError" THEN Failure(exc, "tar", <<>>) ELSE Failure(exc, None, <<>>)

\* `symbol_changes = self.symbol_mapper.map_changes(before_sha, after_sha, file_changes)`:
\* the before side, then the after side, then the two loops; what a side
\* raises ends the call.
MapSymbolChanges ==
    /\ dpc = "detected"
    /\ extractions' = extractions \o MapExtractions(before_sha, after_sha)
    /\ procs' = procs \o MapProcs(before_sha, after_sha)
    /\ \E b \in {BeforeSymbolsOf(before_sha)}, a \in {AfterSymbolsOf(after_sha)} :
          IF b.exc = "none" /\ a.exc = "none"
          THEN /\ before_symbols' = b.symbols
               /\ after_symbols' = a.symbols
               /\ symbol_changes' = MapChanges(before_symbols', after_symbols')
               /\ dpc' = "mapped"
               /\ UNCHANGED failure
          ELSE /\ dpc' = (IF b.exc # "none" THEN b.exc ELSE a.exc)
               /\ failure' = IF dpc' = "waiting" THEN failure ELSE MapFailure(dpc')
               /\ UNCHANGED <<before_symbols, after_symbols, symbol_changes>>
    /\ UNCHANGED <<repo_head, repo_working, before, after, before_sha, after_sha, diff_cmd,
                   is_git, faulty>>
    /\ UNCHANGED notDiff

\* `before_tree = self._build_tree_at_ref(before_sha, symbol_changes, True)`: the
\* extraction (when the side has a commit), whose SubprocessError becomes a
\* RuntimeError and whose git archive, when it has closed its output and does
\* not exit, is waited for for ever; then the analysis, which raises.
BuildTreeAtRef ==
    /\ dpc = "mapped"
    /\ extractions' = extractions \o TreeExtractions("before", before_sha)
    /\ procs' = procs \o TreeProcs(before_sha)
    /\ IF FirstBad(TreeProcs(before_sha)) = 0
       THEN /\ dpc' = AnalyzeWithContext
            /\ failure' = Failure(AnalyzeWithContext, None, <<>>)
       ELSE IF Outcome(TreeProcs(before_sha)[FirstBad(TreeProcs(before_sha))]) = "waiting"
       THEN /\ dpc' = "waiting"
            /\ UNCHANGED failure
       ELSE /\ dpc' = "RuntimeError"
            /\ failure' = Failure("RuntimeError", "git archive | tar", <<before_sha>>)
    /\ UNCHANGED <<repo_head, repo_working, before, after, before_sha, after_sha, diff_cmd,
                   before_symbols, after_symbols, symbol_changes, is_git, faulty>>
    /\ UNCHANGED notDiff

DiffStep ==
    \/ Construct
    \/ ResolveBefore
    \/ ResolveAfter
    \/ DetectFileChanges
    \/ MapSymbolChanges
    \/ BuildTreeAtRef

\* the loops of map_changes are handed two universes
CompareBegin ==
    /\ repo_head = <<>>
    /\ repo_working = <<>>
    /\ before = None
    /\ after = None
    /\ before_sha = None
    /\ after_sha = None
    /\ diff_cmd = <<>>
    /\ before_symbols \in DiffUniverses
    /\ after_symbols \in DiffUniverses
    /\ symbol_changes = <<>>
    /\ extractions = <<>>
    /\ is_git = FALSE
    /\ faulty = NoFault
    /\ procs = <<>>
    /\ failure = NoFailure
    /\ dpc = "compare"

\* map_changes from `symbol_changes = {}` to `return symbol_changes`
CompareSymbols ==
    /\ dpc = "compare"
    /\ symbol_changes' = MapChanges(before_symbols, after_symbols)
    /\ dpc' = "compared"
    /\ UNCHANGED <<repo_head, repo_working, before, after, before_sha, after_sha, diff_cmd,
                   before_symbols, after_symbols, extractions, is_git, faulty, procs, failure>>
    /\ UNCHANGED notDiff

(***************************************************************************)
(* The components driven on their own, without an orchestrator: a caller   *)
(* builds the per-file tables with PythonASTVisitor and                    *)
(* ShellAnalyzer.build_symbol_table, merges and resolves them with the     *)
(* analyzers, and then calls PythonAnalyzer.mark_entry_points and, on a    *)
(* CrossLanguageResolver with the bridges it registered,                   *)
(* resolve_cross_language_calls and apply_cross_refs.  analyze() makes     *)
(* the same three calls, on the tables it has by then: those of a project  *)
(* without a parseable Python file.                                        *)
(***************************************************************************)
\* most bridges registered with one resolver
MaxBridges == 2

\* a readable Python file at the project root; main_guard holds the names
\* called under `if __name__ == "__main__":`
HandlerFile(stem, imports, functions, main_guard) ==
    [ext |-> "py", dirs |-> <<>>, stem |-> <<stem>>, state |-> "ok",
     ast |-> [module |-> <<stem>>, path |-> <<stem \o ".py">>, imports |-> imports,
              classes |-> <<>>, functions |-> functions, main_guard |-> main_guard]]

\* api.py: `from b import g`, `@app.post("/analyze") def analyze(): g()`;
\* v2.py: a second handler of POST /analyze, one of GET /api/health and
\*        `@app.get("/internal") def _internal`;
\* util.py: helper, with a docstring, called under the main guard; main, which calls helper;
\*        cli, which builds an argparse.ArgumentParser; opts, which calls
\*        parser.add_argument_group(); argv, which calls sys.argv.copy();
\*        `@app.command() def serve`;
\* test_api.py: check and _helper;
\* scripts.py: analyze, whose qualified name is that of scripts/analyze.sh
HandlerFiles ==
    {HandlerFile("api", <<Alias(<<"g">>, <<"b", "g">>)>>,
                 <<FunctionDef("analyze", <<>>, <<Expr(<<"g">>)>>, NoName,
                               <<Decorator("post", <<"analyze">>, "")>>)>>, <<>>),
     HandlerFile("v2", <<>>,
                 <<FunctionDef("analyze", <<>>, <<>>, NoName,
                               <<Decorator("post", <<"analyze">>, "")>>),
                   FunctionDef("health", <<>>, <<>>, NoName,
                               <<Decorator("get", <<"api", "health">>, "")>>),
                   FunctionDef("_internal", <<>>, <<>>, NoName,
                               <<Decorator("get", <<"internal">>, "")>>)>>, <<>>),
     HandlerFile("util", <<>>,
                 <<WithDocstring(FunctionDef("helper", <<>>, <<>>, NoName, <<>>), "Helps."),
                   FunctionDef("main", <<>>, <<Expr(<<"helper">>)>>, NoName, <<>>),
                   FunctionDef("cli", <<>>, <<Expr(<<"argparse", "ArgumentParser">>)>>,
                               NoName, <<>>),
                   FunctionDef("opts", <<>>, <<Expr(<<"parser", "add_argument_group">>)>>,
                               NoName, <<>>),
                   FunctionDef("argv", <<>>, <<Expr(<<"sys", "argv", "copy">>)>>,
                               NoName, <<>>),
                   FunctionDef("serve", <<>>, <<>>, NoName,
                               <<Decorator("command", <<>>, "")>>)>>, <<"helper">>),
     HandlerFile("test_api", <<>>,
                 <<FunctionDef("check", <<>>, <<>>, NoName, <<>>),
                   FunctionDef("_helper", <<>>, <<>>, NoName, <<>>)>>, <<>>),
     HandlerFile("scripts", <<>>,
                 <<FunctionDef("analyze", <<>>, <<>>, NoName, <<>>)>>, <<>>)}

\* the sequences of at most n distinct elements of S
DistinctLists(S, n) == {l \in SeqsUpTo(S, n) : \A i, j \in 1..Len(l) : i # j => l[i] # l[j]}

\* the Python table of the caller: the visitor's table of each file, merged by
\* PythonAnalyzer.merge_symbol_tables and resolved by resolve_calls
ResolvedPythonTable(fs) ==
    PyResolveCalls(PyMergeSymbolTables([i \in 1..Len(fs) |-> Visit(fs[i].ast)])).table

\* the shell table of the caller: ShellAnalyzer.build_symbol_table of each
\* script, merged and resolved by the shell analyzer
ResolvedShellTable(fs) ==
    ShResolveCalls(ShMergeSymbolTables([i \in 1..Len(fs) |-> ShBuildSymbolTable(fs[i])])).table

\* symbol_tables: a language has a table when the project has files of it
TablesOf(py, sh) ==
    [lang \in {l \in {"python", "shell"} : IF l = "python" THEN py # <<>> ELSE sh # <<>>} |->
        IF lang = "python" THEN ResolvedPythonTable(py) ELSE ResolvedShellTable(sh)]

\* the projects: Python files, then at most one script
BridgeProjects ==
    {[py |-> py, sh |-> sh] : py \in DistinctLists(HandlerFiles, MaxTables),
                              sh \in FileLists(ShFiles, 1)}

\* the references the stand-in bridges return: a script calling a Python
\* function, a Python handler calling a script
StubRefs ==
    {[source \in {<<"scripts", "analyze">>} |-> <<<<"util", "helper">>>>],
     [source \in {<<"api", "analyze">>} |-> <<<<"tools", "setup">>>>]}

Bridges == {HTTPToPythonBridge, RaisingBridge} \cup {StubBridge(refs) : refs \in StubRefs}

\* the caller holds the resolved tables of the files in `project` and a
\* CrossLanguageResolver on which it called register_bridge for each of
\* `bridges`; there is no orchestrator, so nothing is discovered or logged
BridgeBegin ==
    /\ project_root = <<>>
    /\ \E p \in BridgeProjects :
          /\ project = p.py \o p.sh
          /\ symbol_tables = TablesOf(p.py, p.sh)
    /\ files = <<>>
    /\ files_by_lang = <<>>
    /\ cross_refs = <<>>
    /\ bridges \in SeqsUpTo(Bridges, MaxBridges)
    /\ after_intra = ResolvedCallsOfAll(symbol_tables)
    /\ stages = <<>>
    /\ apc = "tables_resolved"

\* `PythonAnalyzer().mark_entry_points(table)` on the Python table, when there is one
CallMarkEntryPoints ==
    /\ apc = "tables_resolved"
    /\ symbol_tables' = IF "python" \in DOMAIN symbol_tables
                        THEN [symbol_tables EXCEPT !["python"] = PyMarkEntryPoints(@)]
                        ELSE symbol_tables
    /\ apc' = "entry_points_marked"
    /\ UNCHANGED <<project_root, project, files, files_by_lang, cross_refs, bridges,
                   after_intra, stages>>
    /\ UNCHANGED notAnalyze

\* `cross_refs = resolver.resolve_cross_language_calls(symbol_tables)`
CallResolveCrossLanguageCalls ==
    /\ apc = "entry_points_marked"
    /\ cross_refs' = ResolveCrossLanguageCalls(bridges, 1, symbol_tables, <<>>)
    /\ apc' = "cross_refs_resolved"
    /\ UNCHANGED <<project_root, project, files, files_by_lang, symbol_tables, bridges,
                   after_intra, stages>>
    /\ UNCHANGED notAnalyze

\* `resolver.apply_cross_refs(symbol_tables, cross_refs)`
CallApplyCrossRefs ==
    /\ apc = "cross_refs_resolved"
    /\ symbol_tables' = ApplyCrossRefsTo(symbol_tables, cross_refs)
    /\ apc' = "cross_refs_applied"
    /\ UNCHANGED <<project_root, project, files, files_by_lang, cross_refs, bridges,
                   after_intra, stages>>
    /\ UNCHANGED notAnalyze

BridgeStep == CallMarkEntryPoints \/ CallResolveCrossLanguageCalls \/ CallApplyCrossRefs

(***************************************************************************)
(* Pre-marking: GitDiffAnalyzer._build_tree_from_adapter, lines 144-163,   *)
(* driven on its own.  The two adapters hold the analyses of the two       *)
(* sides; symbol_changes is what map_changes made of them, or, when the    *)
(* before side is the working tree, of an empty before side.               *)
(***************************************************************************)
\* a Symbol as the analysis leaves it: has_changes keeps its default
AnalysedSymbol(s) ==
    [metadata |-> s.metadata, resolved_calls |-> s.resolved_calls,
     documentation |-> s.documentation, line_number |-> s.line_number,
     has_changes |-> FALSE]

\* adapter.all_symbols after `adapter.all_symbols[symbol.qualified_name] = symbol`
AnalysedUniverses == {[q \in DOMAIN u |-> AnalysedSymbol(u[q])] : u \in DiffUniverses}

\* mutant of PreMark: no filter on the side
PreMarkUnfiltered(all, changes, is_before) ==
    [q \in DOMAIN all |->
        IF q \in DOMAIN changes THEN [all[q] EXCEPT !.has_changes = TRUE] ELSE all[q]]

\* the loop over symbol_changes.items(): ADDED skipped for the before tree,
\* DELETED for the after tree, names outside all_symbols skipped
PreMark(all, changes, is_before) ==
    [q \in DOMAIN all |->
        IF /\ q \in DOMAIN changes
           /\ IF is_before THEN changes[q] # "A" ELSE changes[q] # "D"
        THEN [all[q] EXCEPT !.has_changes = TRUE]
        ELSE all[q]]

StampIdle ==
    /\ stamp_before = <<>>
    /\ stamp_after = <<>>
    /\ stamp_changes = <<>>
    /\ spc = "idle"

\* both sides are analysed and map_changes has returned
StampBegin ==
    /\ stamp_before \in AnalysedUniverses
    /\ stamp_after \in AnalysedUniverses
    /\ stamp_changes \in {MapChanges(stamp_before, stamp_after), MapChanges(<<>>, stamp_after)}
    /\ spc = "analyzed"

\* _build_tree_from_adapter(adapter, symbol_changes, ref, True)
PreMarkBefore ==
    /\ spc = "analyzed"
    /\ stamp_before' = PreMark(stamp_before, stamp_changes, TRUE)
    /\ spc' = "before_marked"
    /\ UNCHANGED <<stamp_after, stamp_changes>>
    /\ UNCHANGED notStamp

\* _build_tree_from_adapter(adapter, symbol_changes, ref, False)
PreMarkAfter ==
    /\ spc = "before_marked"
    /\ stamp_after' = PreMark(stamp_after, stamp_changes, FALSE)
    /\ spc' = "marked"
    /\ UNCHANGED <<stamp_before, stamp_changes>>
    /\ UNCHANGED notStamp

StampStep == PreMarkBefore \/ PreMarkAfter

(***************************************************************************)
(* Entry-point filtering: the third pass of                                *)
(* CallTreeBuilder._identify_entry_points.  The first two passes have      *)
(* marked the heuristic entry points; _apply_llm_filtering hands them to   *)
(* LLMEntryPointFilter, whose provider answers with a text.                *)
(***************************************************************************)
FilterNames == {"m.main", "m.test_x", "m.util"}

\* the filter and its provider in one run: the module failed to import
\* ("missing"), no provider is found ("no_provider"), complete() raises
\* ("raises"), or it returns a text: one that is not JSON ("unparseable"), JSON
\* that is no object ("not_a_dict"), an object without "entry_points"
\* ("no_key"), one whose "entry_points" is null ("null_list"), or one that
\* selects names ("selects")
Collaborator(kind, selected) == [kind |-> kind, selected |-> selected]

Collaborators ==
    {Collaborator(k, {}) : k \in {"missing", "no_provider", "raises", "unparseable",
                                  "not_a_dict", "no_key", "null_list"}}
        \cup {Collaborator("selects", S) : S \in SUBSET FilterNames}

\* LLMEntryPointFilter._parse_response: [exc, is_dict, has_key, entry_points];
\* a JSONDecodeError is answered with {'entry_points': [], 'reasoning': {}}
ParseResponse(c) ==
    IF c.kind = "unparseable"
    THEN [is_dict |-> TRUE, has_key |-> TRUE, is_list |-> TRUE, entry_points |-> {}]
    ELSE [is_dict |-> c.kind # "not_a_dict", has_key |-> c.kind \notin {"not_a_dict", "no_key"},
          is_list |-> c.kind = "selects", entry_points |-> c.selected]

\* LLMEntryPointFilter.filter_entry_points: every exception inside the try
\* (complete() raising, result.get on a list, set(None)) returns all candidates
FilterEntryPoints(candidates, c) ==
    IF candidates = {} THEN {}
    ELSE IF c.kind = "raises" THEN candidates
    ELSE LET result == ParseResponse(c)
         IN  IF ~result.is_dict THEN candidates
             ELSE IF ~result.has_key THEN {}
             ELSE IF ~result.is_list THEN candidates
             ELSE result.entry_points

\* CallTreeBuilder._apply_llm_filtering
ApplyLlmFiltering(fns, c) ==
    LET candidates == {q \in DOMAIN fns : fns[q]}
    IN  IF c.kind = "missing" THEN fns
        ELSE IF candidates = {} THEN fns
        ELSE IF c.kind = "no_provider" THEN fns
        ELSE [q \in DOMAIN fns |-> q \in FilterEntryPoints(candidates, c)]

FilterIdle ==
    /\ function_infos = <<>>
    /\ heuristic = {}
    /\ use_llm_filtering = FALSE
    /\ collaborator = Collaborator("missing", {})
    /\ fpc = "idle"

\* the first two passes of _identify_entry_points are done
FilterBegin ==
    /\ function_infos \in [FilterNames -> BOOLEAN]
    /\ heuristic = {q \in DOMAIN function_infos : function_infos[q]}
    /\ use_llm_filtering \in BOOLEAN
    /\ collaborator \in Collaborators
    /\ fpc = "identified"

\* `if self.use_llm_filtering: self._apply_llm_filtering()`
IdentifyThirdPass ==
    /\ fpc = "identified"
    /\ function_infos' = IF use_llm_filtering THEN ApplyLlmFiltering(function_infos, collaborator)
                         ELSE function_infos
    /\ fpc' = "filtered"
    /\ UNCHANGED <<heuristic, use_llm_filtering, collaborator>>
    /\ UNCHANGED notFilter

FilterStep == IdentifyThirdPass

(***************************************************************************)
(* The call resolver driven on its own: PythonCallResolver(table).resolve  *)
(* on one raw call of one symbol of the table, the table being that of one *)
(* file or the merged table of a project.                                  *)
(***************************************************************************)
Returning(name, returns) == FunctionDef(name, <<>>, <<>>, returns, <<>>)

\* the module-level imports of a.py
ResolverImports ==
    LET from_b(n) == Alias(<<n>>, <<"b", n>>)
    IN  {<<>>, <<from_b("g")>>, <<from_b("Foo")>>, <<Alias(<<"x">>, <<"x">>)>>,
         <<Alias(<<"x">>, <<"x">>), from_b("Foo")>>, <<from_b("get")>>, <<from_b("p")>>,
         <<from_b("p"), from_b("q")>>, <<from_b("make"), from_b("Foo")>>,
         <<from_b("g"), from_b("Foo"), Alias(<<"x">>, <<"x">>)>>}

\* a.py:  class Foo: bar            (own_foo)
\*        class K:   def m(self): g()
\*        def g(): pass             (own_g)
\*        def f(): x = Foo(); x.bar(); g()
\*        def h(): from c import g; g()
\*        def w(): y = get(); y.bar(); z = p(); z.bar(); n = make(); n.bar()
ResolverFile(imports, own_foo, own_g) ==
    [module |-> <<"a">>, path |-> <<"a.py">>, imports |-> imports,
     classes |-> (IF own_foo THEN <<ClassDef("Foo", <<NoArgMethod("bar")>>)>> ELSE <<>>)
                 \o <<ClassDef("K", <<FunctionDef("m", <<"self">>, <<Expr(<<"g">>)>>,
                                                  NoName, <<>>)>>)>>,
     functions |->
        (IF own_g THEN <<Returning("g", NoName)>> ELSE <<>>)
        \o <<FunctionDef("f", <<>>, <<Assign("x", <<"Foo">>), Expr(<<"x", "bar">>),
                                      Expr(<<"g">>)>>, NoName, <<>>),
             FunctionDef("h", <<>>, <<ImportFrom("g", <<"c", "g">>), Expr(<<"g">>)>>,
                         NoName, <<>>),
             FunctionDef("w", <<>>, <<Assign("y", <<"get">>), Expr(<<"y", "bar">>),
                                      Assign("z", <<"p">>), Expr(<<"z", "bar">>),
                                      Assign("n", <<"make">>), Expr(<<"n", "bar">>)>>,
                         NoName, <<>>)>>]

ResolverFiles ==
    {ResolverFile(i, o, g) : i \in ResolverImports, o \in BOOLEAN, g \in BOOLEAN}

\* b.py:  class Foo: __init__, bar
\*        def g(): pass
\*        def get() -> get: ...     its return annotation is its own name
\*        def p() -> q: ...         p and q name each other
\*        def q() -> p: ...
\*        def make() -> Foo: ...
\* c.py:  def g(): pass
\* x.py:  def bar(): pass
ResolverLibs ==
    <<[module |-> <<"b">>, path |-> <<"b.py">>, imports |-> <<>>,
       classes |-> <<ClassDef("Foo", <<NoArgMethod("__init__"), NoArgMethod("bar")>>)>>,
       functions |-> <<Returning("g", NoName), Returning("get", <<"get">>),
                       Returning("p", <<"q">>), Returning("q", <<"p">>),
                       Returning("make", <<"Foo">>)>>],
      [module |-> <<"c">>, path |-> <<"c.py">>, imports |-> <<>>, classes |-> <<>>,
       functions |-> <<Returning("g", NoName)>>],
      [module |-> <<"x">>, path |-> <<"x.py">>, imports |-> <<>>, classes |-> <<>>,
       functions |-> <<Returning("bar", NoName)>>]>>

\* the libraries found next to a.py, in rglob order
ResolverLibLists ==
    {SelectSeq(ResolverLibs, LAMBDA l : l.module \in S) :
        S \in SUBSET {ResolverLibs[i].module : i \in 1..Len(ResolverLibs)}}

\* the tables resolve is run on: that of a.py alone, and the merged tables of
\* a.py found before or after the libraries
ResolverTablesOf(file) ==
    {Visit(file)}
        \cup {PyMergeSymbolTables([i \in 1..Len(fs) |-> Visit(fs[i])]) :
                fs \in {<<file>> \o l : l \in ResolverLibLists}
                          \cup {l \o <<file>> : l \in ResolverLibLists}}

ResolverIdle ==
    /\ resolver_table = <<>>
    /\ caller = <<>>
    /\ raw_call = <<>>
    /\ resolution = <<>>
    /\ rpc = "idle"

\* resolver = PythonCallResolver(symbol_table); the loops of resolve_calls have
\* reached one raw call of one symbol
ResolverBegin ==
    /\ \E file \in ResolverFiles : resolver_table \in ResolverTablesOf(file)
    /\ caller \in {resolver_table.symbols.map[q] : q \in DOMAIN resolver_table.symbols.map}
    /\ raw_call \in Range(caller.raw_calls)
    /\ resolution = <<>>
    /\ rpc = "called"

\* qualified = resolver.resolve(raw_call, symbol)
ResolveCall ==
    /\ rpc = "called"
    /\ resolution' = PyResolve(resolver_table, raw_call, caller)
    /\ rpc' = IF resolution'.exc = "none" THEN "returned" ELSE "raised"
    /\ UNCHANGED <<resolver_table, caller, raw_call>>
    /\ UNCHANGED notResolver

ResolverStep == ResolveCall

(***************************************************************************)
(* The file change detector: git/file_change_detector.py                   *)
(*                                                                         *)
(* A directory state maps the paths it holds to their contents.  The       *)
(* repositories tried have one commit, HEAD, and a working tree some of    *)
(* whose new files may be unknown to the index.  Content blob1e is blob1   *)
(* with a line appended; blob2 has nothing in common with them.            *)
(***************************************************************************)
\* the paths of the repositories, in the order git lists them
RepoPaths == <<"a.py", "b.sh", "notes.txt">>

Blobs == {"blob1", "blob1e", "blob2"}

FileTrees == UNION {[S -> Blobs] : S \in SUBSET Range(RepoPaths)}

\* Path(path).suffix
Suffix(path) ==
    CASE path = "a.py" -> ".py"
      [] path = "b.sh" -> ".sh"
      [] path = "notes.txt" -> ".txt"

SUPPORTED_EXTENSIONS == {".py", ".sh"}

\* FileChangeDetector._is_supported_file
IsSupportedFile(path) == Suffix(path) \in SUPPORTED_EXTENSIONS

\* the tree of a commit: HEAD is the only one
CommitTree(sha) == head_tree

\* what git diff reads of the working tree: the files the index knows
TrackedTree == [p \in DOMAIN work_tree \ untracked |-> work_tree[p]]

\* git's similarity index of two contents, as the status word prints it
Similarity(c, d) ==
    IF c = d THEN "100"
    ELSE IF {c, d} = {"blob1", "blob1e"} THEN "085"
    ELSE "000"

\* one pass of git's rename detection (diff.renames, on by default) from tree
\* x to tree y: the added paths from RepoPaths[k] on, each paired with the
\* first deleted path whose content has the given similarity to its own and
\* that no pair has taken
RECURSIVE DetectRenames(_, _, _, _, _)
DetectRenames(x, y, k, taken, score) ==
    IF k > Len(RepoPaths) THEN {}
    ELSE LET n == RepoPaths[k]
             sources == SelectSeq(RepoPaths,
                            LAMBDA o : /\ n \in DOMAIN y \ DOMAIN x
                                       /\ n \notin taken
                                       /\ o \in DOMAIN x \ DOMAIN y
                                       /\ o \notin taken
                                       /\ Similarity(x[o], y[n]) = score)
         IN  IF sources = <<>> THEN DetectRenames(x, y, k + 1, taken, score)
             ELSE {<<sources[1], n>>}
                      \cup DetectRenames(x, y, k + 1, taken \cup {sources[1], n}, score)

\* the renames git reports: identical contents are paired first, then the
\* remaining paths by similar content
Renames(x, y) ==
    LET exact == DetectRenames(x, y, 1, {}, "100")
    IN  exact \cup DetectRenames(x, y, 1, UNION {{r[1], r[2]} : r \in exact}, "085")

\* the line of `git diff --name-status` for path p, from tree x to tree y: the
\* status word, a letter followed by the similarity index of a rename, then
\* the path or paths
NameStatusLine(x, y, p) ==
    LET renames == Renames(x, y)
        source == (CHOOSE r \in renames : r[2] = p)[1]
    IN  IF \E r \in renames : r[2] = p
        THEN <<<<"R", Similarity(x[source], y[p])>>, source, p>>
        ELSE IF p \in DOMAIN y \ DOMAIN x THEN <<<<"A">>, p>>
        ELSE IF p \in DOMAIN x \ DOMAIN y /\ ~\E r \in renames : r[1] = p THEN <<<<"D">>, p>>
        ELSE IF p \in DOMAIN x \cap DOMAIN y /\ x[p] # y[p] THEN <<<<"M">>, p>>
        ELSE <<>>

\* the lines of `git diff --name-status`, from tree x to tree y
NameStatus(x, y) ==
    LET listed == SelectSeq(RepoPaths, LAMBDA p : NameStatusLine(x, y, p) # <<>>)
    IN  [i \in 1..Len(listed) |-> NameStatusLine(x, y, listed[i])]

\* run_command(["git", "diff", "--name-status"] + operands).stdout, in lines:
\* `git diff <commit>` compares the commit with the working tree, and
\* `git diff <a>..<b>` commit a with commit b
GitDiff(operands) ==
    IF Len(operands) = 3 /\ operands[2] = ".."
    THEN NameStatus(CommitTree(operands[1]), CommitTree(operands[3]))
    ELSE NameStatus(CommitTree(operands[1]), TrackedTree)

ChangeTypes == {"A", "M", "D", "R"}

FileChange(path, change_type, old_path) ==
    [path |-> path, change_type |-> change_type, old_path |-> old_path]

\* `status = parts[0][0]`
StatusLetter(word) == word[1]

\* the None of _parse_change_line, as a record
NoChange == FileChange(None, None, None)

\* FileChangeDetector._parse_change_line
ParseChangeLine(parts) ==
    IF Len(parts) < 2 THEN NoChange
    ELSE IF StatusLetter(parts[1]) \notin ChangeTypes THEN NoChange
    ELSE IF StatusLetter(parts[1]) = "R"
         THEN FileChange(parts[3], "R", parts[2])
         ELSE FileChange(parts[2], StatusLetter(parts[1]), None)

\* the loop of get_changed_files over the lines of the output
ParseChanges(lines) ==
    LET kept == SelectSeq(lines,
                    LAMBDA l : /\ ParseChangeLine(l) # NoChange
                               /\ IsSupportedFile(ParseChangeLine(l).path))
    IN  [i \in 1..Len(kept) |-> ParseChangeLine(kept[i])]

ChangesIdle ==
    /\ head_tree = <<>>
    /\ work_tree = <<>>
    /\ untracked = {}
    /\ before_ref = None
    /\ after_ref = None
    /\ file_changes = <<>>
    /\ cpc = "idle"

\* FileChangeDetector(project_root).get_changed_files(before_ref, after_ref)
\* is called with what GitRefResolver.resolve returns: a commit, or None for
\* the working tree
ChangesBegin ==
    /\ head_tree \in FileTrees
    /\ work_tree \in FileTrees
    /\ untracked \in SUBSET (DOMAIN work_tree \ DOMAIN head_tree)
    /\ before_ref \in {None, HeadSha}
    /\ after_ref \in {None, HeadSha}
    /\ file_changes = <<>>
    /\ cpc = "called"

\* FileChangeDetector.get_changed_files
DetectChanges ==
    /\ cpc = "called"
    /\ IF GetChangedFiles(before_ref, after_ref) = "ValueError"
       THEN /\ file_changes' = [exc |-> "ValueError", value |-> <<>>]
            /\ cpc' = "raised"
       ELSE /\ file_changes' =
                   [exc |-> None,
                    value |-> ParseChanges(GitDiff(GetChangedFiles(before_ref, after_ref)))]
            /\ cpc' = "returned"
    /\ UNCHANGED <<head_tree, work_tree, untracked, before_ref, after_ref>>
    /\ UNCHANGED notChanges

(***************************************************************************)
(* Specifications.                                                         *)
(***************************************************************************)
TreeInit == TreeBegin /\ DiffIdle /\ TableIdle /\ AnalyzeIdle /\ StampIdle /\ FilterIdle
    /\ ResolverIdle /\ ChangesIdle

TreeNext == TreeStep

\* The build is one synchronous call: it keeps running until it returns or raises.
TreeSpec == TreeInit /\ [][TreeNext]_vars /\ WF_vars(TreeNext)

DiffInit == DiffBegin /\ TreeIdle /\ TableIdle /\ AnalyzeIdle /\ StampIdle /\ FilterIdle
    /\ ResolverIdle /\ ChangesIdle

DiffNext == DiffStep

\* analyze_diff is one synchronous call as well.
DiffSpec == DiffInit /\ [][DiffNext]_vars /\ WF_vars(DiffNext)

CompareInit == CompareBegin /\ TreeIdle /\ TableIdle /\ AnalyzeIdle /\ StampIdle /\ FilterIdle
    /\ ResolverIdle /\ ChangesIdle

CompareNext == CompareSymbols

\* the two loops of map_changes on their own
CompareSpec == CompareInit /\ [][CompareNext]_vars /\ WF_vars(CompareNext)

TableInit == TableBegin /\ TreeIdle /\ DiffIdle /\ AnalyzeIdle /\ StampIdle /\ FilterIdle
    /\ ResolverIdle /\ ChangesIdle

TableNext == TableStep

\* merge and resolve are synchronous calls made one after the other
TableSpec == TableInit /\ [][TableNext]_vars /\ WF_vars(TableNext)

(***************************************************************************)
(* File discovery on its own: a project directory at one of several        *)
(* places of the file system (FlowDiffOrchestrator.__init__ resolves the   *)
(* root it is given; GitDiffAnalyzer hands it a tempfile.TemporaryDirectory*)
(* below $TMPDIR), holding at most MaxTables files.                        *)
(***************************************************************************)
ProjectRoots ==
    {PROJECT_ROOT,
     <<"/", "home", "build", "proj">>,
     <<"/", "home", ".local", "proj">>,
     <<"/", "tmp", "tmpab12cd34">>,
     <<"/", "home", ".cache", "tmp", "tmpab12cd34">>}

DiskFile(ext, dirs, stem) == [ext |-> ext, dirs |-> dirs, stem |-> stem]

DiskFiles ==
    {DiskFile("py", <<"src">>, <<"main">>),
     DiskFile("py", <<>>, <<"build">>),
     DiskFile("py", <<>>, <<".env">>),
     DiskFile("py", <<".cache">>, <<"x">>),
     DiskFile("py", <<"venv", "lib">>, <<"site">>),
     DiskFile("py", <<"src", "__pycache__">>, <<"main">>),
     DiskFile("py", <<"build">>, <<"gen">>),
     DiskFile("sh", <<>>, <<"run">>),
     DiskFile("sh", <<"node_modules">>, <<"install">>),
     DiskFile("sh", <<"dist">>, <<"pkg">>),
     DiskFile("txt", <<"src">>, <<"notes">>)}

\* FlowDiffOrchestrator(project_root): the root and what lies below it
DiscoverBegin ==
    /\ project_root \in ProjectRoots
    /\ project \in FileLists(DiskFiles, MaxTables)
    /\ files = <<>>
    /\ files_by_lang = <<>>
    /\ symbol_tables = <<>>
    /\ cross_refs = <<>>
    /\ bridges = <<>>
    /\ after_intra = <<>>
    /\ stages = <<>>
    /\ apc = "start"

DiscoverInit == DiscoverBegin /\ TreeIdle /\ DiffIdle /\ TableIdle /\ StampIdle /\ FilterIdle
    /\ ResolverIdle /\ ChangesIdle

DiscoverNext == DiscoverFiles \/ GroupFiles

\* steps 1 and 2 of analyze()
DiscoverSpec == DiscoverInit /\ [][DiscoverNext]_vars /\ WF_vars(DiscoverNext)

AnalyzeInit == AnalyzeBegin /\ TreeIdle /\ DiffIdle /\ TableIdle /\ StampIdle /\ FilterIdle
    /\ ResolverIdle /\ ChangesIdle

AnalyzeNext == AnalyzeStep

\* analyze() is one synchronous call
AnalyzeSpec == AnalyzeInit /\ [][AnalyzeNext]_vars /\ WF_vars(AnalyzeNext)

StampInit == StampBegin /\ TreeIdle /\ DiffIdle /\ TableIdle /\ AnalyzeIdle /\ FilterIdle
    /\ ResolverIdle /\ ChangesIdle

BridgeInit == BridgeBegin /\ TreeIdle /\ DiffIdle /\ TableIdle /\ StampIdle /\ FilterIdle
    /\ ResolverIdle /\ ChangesIdle

BridgeNext == BridgeStep

\* steps 4.5, 5 and 6 follow one another inside analyze()
BridgeSpec == BridgeInit /\ [][BridgeNext]_vars /\ WF_vars(BridgeNext)

StampNext == StampStep

\* the two trees are built one after the other in analyze_diff
StampSpec == StampInit /\ [][StampNext]_vars /\ WF_vars(StampNext)

FilterInit ==
    FilterBegin /\ TreeIdle /\ DiffIdle /\ TableIdle /\ AnalyzeIdle /\ StampIdle
    /\ ResolverIdle /\ ChangesIdle

FilterNext == FilterStep

\* the third pass is a synchronous call
FilterSpec == FilterInit /\ [][FilterNext]_vars /\ WF_vars(FilterNext)

ResolverInit ==
    /\ ResolverBegin /\ TreeIdle /\ DiffIdle /\ TableIdle /\ AnalyzeIdle /\ StampIdle
    /\ FilterIdle /\ ChangesIdle

ResolverNext == ResolverStep

\* resolve is a synchronous call
ResolverSpec == ResolverInit /\ [][ResolverNext]_vars /\ WF_vars(ResolverNext)

ChangesInit ==
    /\ ChangesBegin /\ TreeIdle /\ DiffIdle /\ TableIdle /\ AnalyzeIdle /\ StampIdle
    /\ FilterIdle /\ ResolverIdle

ChangesNext == DetectChanges

\* get_changed_files is a synchronous call
ChangesSpec == ChangesInit /\ [][ChangesNext]_vars /\ WF_vars(ChangesNext)

\* a plain analysis of a project holding scripts/analyze.sh has returned
PlainAnalysisDone ==
    /\ project_root = PROJECT_ROOT
    /\ project = <<AnalyzeScript>>
    /\ files = project
    /\ files_by_lang = GroupByLanguage(files)
    /\ symbol_tables = TablesOf(<<>>, project)
    /\ cross_refs = <<>>
    /\ bridges = <<HTTPToPythonBridge>>
    /\ after_intra = ResolvedCallsOfAll(symbol_tables)
    /\ stages = <<Stage("discover", "all"), Stage("group", "all"), Stage("build", "shell"),
                  Stage("merge", "shell"), Stage("resolve", "shell"),
                  Stage("bridge", "HTTPToPythonBridge"), Stage("apply", "all")>>
    /\ apc = "returned"

\* the diff is asked for after a plain analysis, as the web server does
ExecInit == ExecBegin /\ TreeIdle /\ TableIdle /\ PlainAnalysisDone /\ StampIdle /\ FilterIdle
    /\ ResolverIdle /\ ChangesIdle

ExecNext == DiffStep

\* the constructor and analyze_diff are synchronous calls; a wait without a
\* timeout for a process that never exits leaves no step to take
ExecSpec == ExecInit /\ [][ExecNext]_vars /\ WF_vars(ExecNext)

(***************************************************************************)
(* Claims about the call-tree builder.                                     *)
(***************************************************************************)
NodeAt(t, p) == CHOOSE n \in trees : n.tree = t /\ n.path = p

\* the universe A -> B -> A with entry point A
IsABA ==
    /\ DOMAIN all_symbols = SmallNames
    /\ all_symbols["A"].resolved_calls = <<"B">>
    /\ all_symbols["B"].resolved_calls = <<"A">>
    /\ entry_points = <<"A">>

ABAShape ==
    {[tree |-> n.tree, path |-> n.path, qn |-> n.qn, depth |-> n.depth] : n \in trees}
        = { [tree |-> 1, path |-> <<>>, qn |-> "A", depth |-> 0],
            [tree |-> 1, path |-> <<1>>, qn |-> "B", depth |-> 1],
            [tree |-> 1, path |-> <<1, 1>>, qn |-> "A", depth |-> 2] }

\* C1: for every universe and entry-point list the construction terminates (the
\* build reaches "done", never the recursion limit), and for A -> B -> A from A
\* the tree is A (depth 0) -> B (depth 1) -> A (depth 2, no children), so B
\* occurs exactly once.
C1_ConstructionTerminates ==
    <>(tpc = "done" /\ (IsABA => ABAShape /\ Cardinality({n \in trees : n.qn = "B"}) = 1))

C1_Witness ==
    /\ tpc = "done"
    /\ IsABA
    /\ \E n \in trees : n.qn = "A" /\ n.depth = 2

\* the greatest depth of a node whose symbol has has_changes, 0 when there is none
ChangedDepth ==
    LET ds == {n.depth : n \in {m \in trees : all_symbols[m.qn].has_changes}}
    IN  IF ds = {} THEN 0 ELSE CHOOSE d \in ds : \A e \in ds : e <= d

\* the chain of depth 10 whose only changed node is the one at depth 8
IsChain10Changed8 ==
    /\ MaxChain >= 10
    /\ all_symbols = ChainUniverse(10, FALSE, {8})
    /\ entry_points = <<ChainName(0)>>

\* C2: after a build a node is expanded iff its depth is below
\* max(6, greatest depth of a changed node in any tree of the build); in the chain
\* of depth 10 with the change at depth 8 exactly the depths 0..7 are expanded.
C2_ExpansionDepth ==
    tpc = "done" =>
        /\ \A n \in trees :
              n.is_expanded <=> n.depth < Max(DEFAULT_EXPANSION_DEPTH, ChangedDepth)
        /\ IsChain10Changed8 =>
              {n.depth : n \in {m \in trees : m.is_expanded}} = 0..7

C2_Witness ==
    /\ tpc = "done"
    /\ IsChain10Changed8
    /\ \E n \in trees : n.depth = 7 /\ n.is_expanded
    /\ \E n \in trees : n.depth = 8 /\ ~n.is_expanded
    /\ \E n \in trees : n.depth = 10

\* the nodes above a node on its root-to-leaf path, and the nodes right below it
Ancestors(n) ==
    {m \in trees : /\ m.tree = n.tree
                   /\ Len(m.path) < Len(n.path)
                   /\ m.path = SubSeq(n.path, 1, Len(m.path))}

Children(n) ==
    {m \in trees : /\ m.tree = n.tree
                   /\ Len(m.path) = Len(n.path) + 1
                   /\ SubSeq(m.path, 1, Len(n.path)) = n.path}

RepeatsAncestor(n) == \E m \in Ancestors(n) : m.qn = n.qn

\* the qualified names of the children of a node, in child order
ChildNames(n) ==
    [i \in 1..Cardinality(Children(n)) |->
        (CHOOSE c \in Children(n) : c.path = Append(n.path, i)).qn]

\* C21: in every built tree the root is an entry point at depth 0 and a child
\* is one deeper than its parent; a node whose qualified name is that of one of
\* its ancestors has no children, and every other node has one child per entry
\* of its resolved_calls that is a key of the universe, in list order; so no
\* name occurs more than twice on a root-to-leaf path.
C21_TreeShape ==
    tpc = "done" =>
        /\ {n.tree : n \in trees} = 1..Len(entry_points)
        /\ \A n \in trees :
              /\ n.path = <<>> => n.depth = 0 /\ n.qn = entry_points[n.tree]
              /\ n.path # <<>> => \E m \in trees : n \in Children(m)
              /\ \A c \in Children(n) : c.depth = n.depth + 1
              /\ {c.path : c \in Children(n)}
                    = {Append(n.path, i) : i \in 1..Cardinality(Children(n))}
              /\ ChildNames(n) =
                    IF RepeatsAncestor(n) THEN <<>>
                    ELSE SelectSeq(all_symbols[n.qn].resolved_calls,
                                   LAMBDA c : c \in DOMAIN all_symbols)
              /\ \A m \in Ancestors(n) :
                    Cardinality({k \in Ancestors(n) \cup {n} : k.qn = m.qn}) <= 2

\* A calls B twice and B calls A: both B nodes are expanded, each A below is cut
\* off; and some node skips a callee that is no known symbol.
C21_Witness ==
    /\ tpc = "done"
    /\ \E n \in trees : RepeatsAncestor(n) /\ all_symbols[n.qn].resolved_calls # <<>>
    /\ \E n, m \in trees :
          /\ n.tree = m.tree /\ n.qn = m.qn /\ n.path # m.path
          /\ ~RepeatsAncestor(n) /\ ~RepeatsAncestor(m)
          /\ Children(n) # {} /\ Children(m) # {}
    /\ \E n \in trees :
          /\ ~RepeatsAncestor(n)
          /\ UnknownName \in Range(all_symbols[n.qn].resolved_calls)
          /\ Cardinality(Children(n)) = 1

(***************************************************************************)
(* Claims about the diff engine.                                           *)
(***************************************************************************)
\* map_changes has returned
Mapped == dpc = "mapped"

\* the loops of map_changes have run on the two universes
Compared == dpc = "compared"

InBoth == DOMAIN before_symbols \cap DOMAIN after_symbols

SameMeaning(q) ==
    /\ before_symbols[q].metadata = after_symbols[q].metadata
    /\ Range(before_symbols[q].resolved_calls) = Range(after_symbols[q].resolved_calls)
    /\ before_symbols[q].documentation = after_symbols[q].documentation

\* C3: a qualified name in both compared universes whose metadata, set of
\* resolved_calls and documentation are equal gets no entry in the change map,
\* whatever the two line numbers are.
C3_LineNumberInvariance ==
    Compared => \A q \in InBoth : SameMeaning(q) => q \notin DOMAIN symbol_changes

C3_Witness ==
    /\ Compared
    /\ \E q \in InBoth :
          /\ SameMeaning(q)
          /\ before_symbols[q].line_number # after_symbols[q].line_number
          /\ q \notin DOMAIN symbol_changes

\* the two references designate identical directory states: the same commit or the
\* working tree on both sides, or the commit and an unmodified working tree
IdenticalStates ==
    /\ before \in {"HEAD", WORKING_TREE_MARKER}
    /\ after \in {"HEAD", WORKING_TREE_MARKER}
    /\ before = after \/ repo_head = repo_working

\* C4: between identical directory states analyze_diff completes (it raises
\* nothing) and reports no added, modified or deleted symbol and an empty change map.
C4_IdenticalStatesNoChanges ==
    IdenticalStates =>
        /\ dpc \notin {"ValueError", "TypeError"}
        /\ dpc \in {"mapped", "returned"} =>
              /\ symbol_changes = <<>>
              /\ CalculateStats(symbol_changes).functions_added = 0
              /\ CalculateStats(symbol_changes).functions_modified = 0
              /\ CalculateStats(symbol_changes).functions_deleted = 0

\* C5: every qualified name of the two compared universes gets exactly one outcome:
\* DELETED iff only before, ADDED iff only after, MODIFIED iff in both and the
\* metadata, the set of resolved_calls or the documentation differ; else no entry.
C5_Classification ==
    Compared =>
        /\ DOMAIN symbol_changes \subseteq DOMAIN before_symbols \cup DOMAIN after_symbols
        /\ \A q \in DOMAIN before_symbols \cup DOMAIN after_symbols :
              LET kind == IF q \in DOMAIN symbol_changes THEN symbol_changes[q] ELSE "none"
              IN  /\ kind = "D" <=> q \in DOMAIN before_symbols \ DOMAIN after_symbols
                  /\ kind = "A" <=> q \in DOMAIN after_symbols \ DOMAIN before_symbols
                  /\ kind = "M" <=> q \in InBoth /\ ~SameMeaning(q)
                  /\ kind \in {"D", "A", "M", "none"}

C5_Witness ==
    /\ Compared
    /\ \E q \in InBoth :
          /\ before_symbols[q].resolved_calls # after_symbols[q].resolved_calls
          /\ SameMeaning(q)
          /\ q \notin DOMAIN symbol_changes
    /\ \E q \in DOMAIN symbol_changes : symbol_changes[q] = "D"

SideExtractions(side) == {i \in 1..Len(extractions) : extractions[i].side = side}

\* C10: a side given as "working" resolves to None, is never extracted, and its
\* universe is the analysis of the working tree, on the before side as on the after side.
C10_WorkingTreeSide ==
    Mapped =>
        /\ before = WORKING_TREE_MARKER =>
              /\ before_sha = None
              /\ SideExtractions("before") = {}
              /\ BuildCurrentSymbolTable.exc = "none"
              /\ before_symbols = BuildCurrentSymbolTable.symbols
        /\ after = WORKING_TREE_MARKER =>
              /\ after_sha = None
              /\ SideExtractions("after") = {}
              /\ BuildCurrentSymbolTable.exc = "none"
              /\ after_symbols = BuildCurrentSymbolTable.symbols

(***************************************************************************)
(* Claims about merging and call resolution.                               *)
(***************************************************************************)
TablesWith(q) == {i \in 1..Len(file_tables) : q \in DOMAIN file_tables[i].symbols.map}

LastTableWith(q) == CHOOSE i \in TablesWith(q) : \A j \in TablesWith(q) : j <= i

Permuted(p) == [i \in 1..Len(file_tables) |-> file_tables[p[i]]]

\* C6: a second (and any later) run of resolve_calls on the merged table leaves
\* every symbol's resolved_calls, entries and order, as the first run left them.
C6_ResolveCallsIdempotent ==
    runs >= 2 => ResolvedCallsOf(merged) = after_first

C6_Witness ==
    /\ runs = 2
    /\ ppc = "resolved"
    /\ \E q \in DOMAIN merged.symbols.map : Len(merged.symbols.map[q].resolved_calls) = 2

\* C7: the merged symbol map is the union of the inputs' maps, a qualified name
\* found in several tables keeping the Symbol of the last of them; the set of
\* qualified names is the same for every permutation of the list of tables.
C7_MergeLastWins ==
    ppc = "merged" =>
        /\ DOMAIN merged.symbols.map =
               UNION {DOMAIN file_tables[i].symbols.map : i \in 1..Len(file_tables)}
        /\ \A q \in DOMAIN merged.symbols.map :
              merged.symbols.map[q] = file_tables[LastTableWith(q)].symbols.map[q]
        /\ \A p \in Permutations(1..Len(file_tables)) :
              DOMAIN MergeSymbolTables(language, Permuted(p)).symbols.map
                  = DOMAIN merged.symbols.map

C7_Witness ==
    /\ ppc = "merged"
    /\ \E q \in DOMAIN merged.symbols.map :
          \E i \in TablesWith(q) :
              /\ i < LastTableWith(q)
              /\ file_tables[i].symbols.map[q] # merged.symbols.map[q]

\* the class a type name denotes in the file that uses it: a class of the file,
\* or what the file imports under that name
DenotedClass(i, type_name) == ResolveType(file_tables[i], type_name)

ClassHasMethod(class_name, method_name) ==
    \E j \in 1..Len(file_tables) :
        \E k \in DOMAIN file_tables[j].classes :
            /\ file_tables[j].classes[k].qualified_name = class_name
            /\ method_name \in DOMAIN file_tables[j].classes[k].methods

\* C9: when the body of f binds x = Foo(...), Foo is a known class with a method
\* bar and f calls x.bar, resolve_calls returns and the qualified name of that
\* method, module.Foo.bar, is in f's resolved_calls.
C9_LocalBindingResolves ==
    (language = "python" /\ runs >= 1) =>
        \A q \in DOMAIN merged.symbols.map :
            LET i == LastTableWith(q)
                f == file_tables[i].symbols.map[q]
            IN  \A x \in DOMAIN f.metadata.local_bindings :
                    \A c \in Range(f.raw_calls) :
                        LET class_name == DenotedClass(i, f.metadata.local_bindings[x])
                        IN  (/\ Len(c) = 2
                             /\ <<c[1]>> = x
                             /\ class_name # NoName
                             /\ ClassHasMethod(class_name, <<c[2]>>))
                            => /\ ppc = "resolved"
                               /\ class_name \o <<c[2]>>
                                      \in Range(merged.symbols.map[q].resolved_calls)

(***************************************************************************)
(* Claims about the pipeline.                                              *)
(***************************************************************************)
AnalyzeEnded == apc \in {"returned", "TypeError", "OSError", "AttributeError", "RecursionError"}

\* the handlers the analysed Python files declare: <<qualified_name, method, route>>
HandlersOf(file) ==
    {<<PathToModule(file) \o <<fn.name>>, ExtractHttpDecorator(fn)[1],
       ExtractHttpDecorator(fn)[2]>> :
        fn \in {g \in Range(file.ast.functions) : ExtractHttpDecorator(g)[1] # None}}

DeclaredHandlers ==
    UNION {HandlersOf(project[i]) :
              i \in {j \in 1..Len(project) : /\ project[j].ext = "py"
                                             /\ project[j].state = "ok"
                                             /\ ShouldIncludeFile(project_root, project[j])}}

\* the analysed scripts that can be read
ReadScripts ==
    {project[i] : i \in {j \in 1..Len(project) : /\ project[j].ext = "sh"
                                                 /\ project[j].readable
                                                 /\ ShouldIncludeFile(project_root, project[j])}}

\* C8: when analyze() has ended, it has returned and, for each shell symbol and
\* each of its HTTP raw calls, every handler declared with exactly that method
\* and route is in the symbol's resolved_calls; and resolved_calls holds nothing
\* but handlers whose method and route one of the symbol's raw calls names.
C8_HttpCallsBridged ==
    AnalyzeEnded =>
        /\ \A s \in ReadScripts : \A c \in Range(ExtractCommands(s.lines)) :
              \A h \in DeclaredHandlers :
                  (c[1] = "HTTP" /\ h[2] = c[2] /\ h[3] = c[3]) =>
                      /\ apc = "returned"
                      /\ "shell" \in DOMAIN symbol_tables
                      /\ \E q \in DOMAIN symbol_tables["shell"].symbols.map :
                            LET sym == symbol_tables["shell"].symbols.map[q]
                            IN  c \in Range(sym.raw_calls) /\ h[1] \in Range(sym.resolved_calls)
        /\ (apc = "returned" /\ "shell" \in DOMAIN symbol_tables) =>
              \A q \in DOMAIN symbol_tables["shell"].symbols.map :
                  LET sym == symbol_tables["shell"].symbols.map[q]
                  IN  \A t \in Range(sym.resolved_calls) :
                          \E h \in DeclaredHandlers : \E c \in Range(sym.raw_calls) :
                              h[1] = t /\ c[1] = "HTTP" /\ h[2] = c[2] /\ h[3] = c[3]

(***************************************************************************)
(* Claims about pre-marking.                                               *)
(***************************************************************************)
Marked(all) == {q \in DOMAIN all : all[q].has_changes}

Classified(kinds) == {q \in DOMAIN stamp_changes : stamp_changes[q] \in kinds}

\* C11: once a side is pre-marked, its symbols with has_changes are exactly those
\* classified MODIFIED or DELETED (before side), MODIFIED or ADDED (after side);
\* a side that is only analysed has no symbol with has_changes.
C11_PreStamped ==
    /\ spc = "analyzed" => Marked(stamp_before) = {}
    /\ spc \in {"analyzed", "before_marked"} => Marked(stamp_after) = {}
    /\ spc \in {"before_marked", "marked"} =>
          Marked(stamp_before) = DOMAIN stamp_before \cap Classified({"M", "D"})
    /\ spc = "marked" =>
          Marked(stamp_after) = DOMAIN stamp_after \cap Classified({"M", "A"})

C11_Witness ==
    /\ spc = "marked"
    /\ \E q \in Marked(stamp_before) : stamp_changes[q] = "D"
    /\ \E q \in Marked(stamp_before) \cap Marked(stamp_after) : stamp_changes[q] = "M"

(***************************************************************************)
(* Claims about failures inside analyze().                                 *)
(***************************************************************************)
\* the files analyze() discovers
Included ==
    {project[i] : i \in {j \in 1..Len(project) : ShouldIncludeFile(project_root, project[j])}}

\* the files build_symbol_table cannot parse or read
CannotBuild(file) ==
    IF file.ext = "py" THEN file.state \in {"syntax_error", "undecodable", "unreadable"}
    ELSE ~file.readable

\* the qualified names the file defines
DefinedBy(file) ==
    IF file.ext = "py"
    THEN {PathToModule(file) \o <<file.ast.functions[i].name>> : i \in 1..Len(file.ast.functions)}
    ELSE {ScriptToQualifiedName(file)}

\* C12: when analyze() has ended on a project one of whose files cannot be built,
\* it has returned, and the symbols of every other file are in the returned tables.
C12_BuildFailureTolerated ==
    (AnalyzeEnded /\ \E f \in Included : CannotBuild(f)) =>
        /\ apc = "returned"
        /\ \A f \in Included : ~CannotBuild(f) =>
              /\ LanguageOf(f) \in DOMAIN symbol_tables
              /\ DefinedBy(f) \subseteq DOMAIN symbol_tables[LanguageOf(f)].symbols.map

(***************************************************************************)
(* Claims about the cross-language resolver.                               *)
(***************************************************************************)
Raising == {i \in 1..Len(bridges) : BridgeOutcome(bridges[i], symbol_tables).exc # "none"}

\* what bridge i returned
RefsOf(i) == BridgeOutcome(bridges[i], symbol_tables).refs

\* resolved_calls of symbol q of a language as they are now
NowResolved(lang, q) == symbol_tables[lang].symbols.map[q].resolved_calls

\* cross_refs.get(q, [])
CrossRefsFor(q) == IF q \in DOMAIN cross_refs THEN cross_refs[q] ELSE <<>>

\* C13: with a bridge registered whose resolve raises, the calls the pipeline
\* makes from entry-point marking on raise nothing;
\* every reference of every other bridge is in cross_refs and, once applied, in
\* the resolved_calls of its source; and each symbol's resolved_calls are those
\* of intra-language resolution followed by its cross references.
C13_BridgeFailureContained ==
    Raising # {} =>
        /\ apc \in {"tables_resolved", "entry_points_marked", "cross_refs_resolved",
                    "cross_refs_applied"}
        /\ apc \in {"cross_refs_resolved", "cross_refs_applied"} =>
              \A i \in (1..Len(bridges)) \ Raising : \A source \in DOMAIN RefsOf(i) :
                  /\ source \in DOMAIN cross_refs
                  /\ Range(RefsOf(i)[source]) \subseteq Range(cross_refs[source])
        /\ apc = "cross_refs_applied" =>
              \A lang \in DOMAIN symbol_tables : \A q \in DOMAIN symbol_tables[lang].symbols.map :
                  NowResolved(lang, q) = after_intra[lang][q] \o CrossRefsFor(q)

C13_Witness ==
    /\ apc = "cross_refs_applied"
    /\ Raising # {}
    /\ \E i \in 1..Len(bridges) : i \notin Raising /\ \E j \in Raising : j < i
    /\ "python" \in DOMAIN symbol_tables
    /\ \E q \in DOMAIN symbol_tables["python"].symbols.map :
          /\ after_intra["python"][q] # <<>>
          /\ CrossRefsFor(q) # <<>>
          /\ Len(NowResolved("python", q)) = 2

\* name.startswith("_"), over the names the projects use
StartsWithUnderscore(name) == name \in {"_internal", "_helper", "__init__"}

\* entry-point marking has run: mark_entry_points was called on the tables, or
\* analyze() is past its step 4.5
EntryPointsMarked ==
    apc \in {"entry_points_marked", "cross_refs_resolved", "cross_refs_applied",
             "marked", "bridged", "returned"}

\* the Python symbols of the run
PythonSymbols ==
    IF "python" \in DOMAIN symbol_tables THEN symbol_tables["python"].symbols.map ELSE <<>>

\* C14: after entry-point marking no Python symbol whose name starts with an
\* underscore is an entry point, be it HTTP-decorated or defined in a
\* test_*.py file.
C14_PrivateNeverEntryPoint ==
    EntryPointsMarked =>
        \A q \in DOMAIN PythonSymbols :
            StartsWithUnderscore(PythonSymbols[q].name) => ~PythonSymbols[q].is_entry_point

\* the names _is_real_entry_point accepts by exact match
ConventionalNames == {"main", "run", "execute", "start", "init", "initialize"}

\* _find_main_guard_calls: the names called under `if __name__ == "__main__":`
MainGuardCalls(file) == Range(file.ast.main_guard)

\* `pattern in call` for one of the patterns ArgumentParser, parse_args and
\* add_argument: no pattern holds a dot, so it lies within one segment of the
\* call; over the segments the projects use
ContainsCliPattern(segment) ==
    segment \in {"ArgumentParser", "parse_args", "add_argument", "add_argument_group",
                 "my_parse_args"}

\* _uses_cli_parsing: a call that contains one of the patterns, an access to
\* sys.argv (here: a call on it, such as sys.argv.copy()), or a decorator
\* named command, group, option or argument
UsesCliParsing(fn) ==
    \/ \E i \in 1..Len(ExtractCalls(fn)) :
          \E k \in 1..Len(ExtractCalls(fn)[i]) : ContainsCliPattern(ExtractCalls(fn)[i][k])
    \/ \E i \in 1..Len(fn.body) :
          /\ fn.body[i].op \in {"assign", "expr"}
          /\ Len(fn.body[i].func) >= 2
          /\ fn.body[i].func[1] = "sys"
          /\ fn.body[i].func[2] = "argv"
    \/ \E i \in 1..Len(fn.decorator_list) :
          fn.decorator_list[i].attr \in {"command", "group", "option", "argument"}

\* the entry-point signals of a function of a Python file
HasEntryPointSignal(file, fn) ==
    \/ ExtractHttpDecorator(fn)[1] # None
    \/ StartsWithTest(fn.name)
    \/ StartsWithTest(FileNameOf(file.ast.path))
    \/ fn.name \in MainGuardCalls(file)
    \/ UsesCliParsing(fn)
    \/ fn.name \in ConventionalNames

\* the Python files of the project
PythonFiles == {project[i] : i \in {j \in 1..Len(project) : project[j].ext = "py"}}

\* C15: when marking and bridging are done, every Python function whose name does not
\* start with an underscore and that is an HTTP handler, is test-shaped or in a
\* test_*.py file, is called under the main guard, parses a command line, or
\* is named main, run, execute, start, init or initialize, is an entry point.
C15_SignalsMarked ==
    apc = "cross_refs_applied" =>
        \A file \in PythonFiles : \A i \in 1..Len(file.ast.functions) :
            LET fn == file.ast.functions[i]
            IN  (~StartsWithUnderscore(fn.name) /\ HasEntryPointSignal(file, fn))
                    => PythonSymbols[PathToModule(file) \o <<fn.name>>].is_entry_point

\* a is b[:len(a)]
IsPrefixOf(a, b) == Len(a) <= Len(b) /\ \A i \in 1..Len(a) : a[i] = b[i]

\* C16: from the end of intra-language resolution to the end of bridging,
\* every symbol's resolved_calls begin with the entries intra-language
\* resolution left: marking and bridging remove and replace nothing.
C16_BridgingOnlyAppends ==
    \A lang \in DOMAIN after_intra : \A q \in DOMAIN after_intra[lang] :
        /\ lang \in DOMAIN symbol_tables
        /\ q \in DOMAIN symbol_tables[lang].symbols.map
        /\ IsPrefixOf(after_intra[lang][q], NowResolved(lang, q))

C16_Witness ==
    /\ apc = "cross_refs_applied"
    /\ Raising = {}
    /\ \E lang \in DOMAIN after_intra : \E q \in DOMAIN after_intra[lang] :
          /\ after_intra[lang][q] # <<>>
          /\ Len(NowResolved(lang, q)) > Len(after_intra[lang][q])
    /\ \E lang \in DOMAIN after_intra : \E q \in DOMAIN after_intra[lang] :
          /\ after_intra[lang][q] = <<>>
          /\ NowResolved(lang, q) # <<>>

\* the step of analyze() a stage belongs to
StageRank(e) ==
    CASE e.stage = "discover" -> 1
      [] e.stage = "group" -> 2
      [] e.stage \in {"build", "merge"} -> 3
      [] e.stage = "resolve" -> 4
      [] e.stage = "mark" -> 5
      [] e.stage = "bridge" -> 6
      [] e.stage = "apply" -> 7

\* stage e is logged before position j
LoggedBefore(e, j) == \E i \in 1..(j - 1) : stages[i] = e

\* C17: the stages of analyze() are logged in the order discovery, grouping,
\* per language build then merge, resolve_calls, marking, bridges, apply; a
\* bridge runs only after resolve_calls has returned for every language table
\* and after marking; cross references exist only once a bridge has run, and a
\* symbol's resolved_calls differ from those of intra-language resolution only
\* once entry points are marked and the references applied.
C17_StageOrder ==
    /\ \A i, j \in 1..Len(stages) : i < j => StageRank(stages[i]) <= StageRank(stages[j])
    /\ \A j \in 1..Len(stages) :
          /\ stages[j].stage = "merge" => LoggedBefore(Stage("build", stages[j].on), j)
          /\ stages[j].stage = "bridge" =>
                /\ \A lang \in DOMAIN symbol_tables : LoggedBefore(Stage("resolve", lang), j)
                /\ "python" \in DOMAIN symbol_tables => LoggedBefore(Stage("mark", "python"), j)
    /\ cross_refs # <<>> => \E j \in 1..Len(stages) : stages[j].stage = "bridge"
    /\ \A lang \in DOMAIN after_intra : \A q \in DOMAIN after_intra[lang] :
          NowResolved(lang, q) # after_intra[lang][q] =>
              /\ EntryPointsMarked
              /\ stages[Len(stages)] = Stage("apply", "all")

C17_Witness ==
    /\ apc = "returned"
    /\ DOMAIN symbol_tables = {"python", "shell"}
    /\ {stages[i].stage : i \in 1..Len(stages)}
           = {"discover", "group", "build", "merge", "resolve", "mark", "bridge", "apply"}
    /\ Len(bridges) = 2
    /\ \E q \in DOMAIN after_intra["shell"] : NowResolved("shell", q) # after_intra["shell"][q]

\* the first of the two references that git rev-parse does not resolve, in the
\* order analyze_diff resolves them; <<>> when both resolve
BadRef ==
    IF before # WORKING_TREE_MARKER /\ RevParse(before) = "SubprocessError" THEN <<before>>
    ELSE IF after # WORKING_TREE_MARKER /\ RevParse(after) = "SubprocessError" THEN <<after>>
    ELSE <<>>

\* neither file-change detection nor an extraction nor an analysis has started
OnlyResolving ==
    /\ diff_cmd = <<>>
    /\ extractions = <<>>
    /\ before_symbols = <<>>
    /\ after_symbols = <<>>
    /\ symbol_changes = <<>>
    /\ \A i \in 1..Len(procs) : procs[i].cmd = "git rev-parse"

\* C18: on a repository, when one of the two references does not resolve the
\* call never passes reference resolution and ends in a ValueError naming the
\* first such reference; on a directory without .git the constructor raises a
\* ValueError naming the path and starts no process; either way nothing of the
\* diff is produced and the plain analysis made before is as it was.
C18_BadRefOrPathRejected ==
    /\ (is_git /\ BadRef # <<>>) =>
          /\ dpc \in {"new", "start", "before_resolved", "ValueError"}
          /\ OnlyResolving
          /\ dpc = "ValueError" => (failure.exc = "ValueError" /\ failure.names = BadRef)
    /\ ~is_git =>
          /\ dpc \in {"new", "ValueError"}
          /\ OnlyResolving
          /\ procs = <<>>
          /\ dpc = "ValueError" => failure = Failure("ValueError", None, <<ProjectRootStr>>)
    /\ dpc = "ValueError" => PlainAnalysisDone

C18_Witness ==
    /\ dpc = "ValueError"
    /\ is_git
    /\ before = "HEAD"
    /\ before_sha = HeadSha
    /\ after = "nope"
    /\ failure.names = <<"nope">>
    /\ Len(procs) = 2
    /\ symbol_tables # <<>>

\* analyze_diff, or the constructor, has returned or raised
DiffEnded ==
    dpc \in {"returned", "ValueError", "SubprocessError", "CalledProcessError",
             "RuntimeError", "TypeError"}

\* a process that was started did not end "ok"
ProcessMisbehaved == \E i \in 1..Len(procs) : Outcome(procs[i]) # "ok"

\* C19: every run of analyze_diff ends; every process it started was waited
\* for with a timeout; and when one of them failed or did not exit, the
\* exception raised reports the command and names the reference.
C19_ProcessesBounded ==
    <>(/\ DiffEnded
       /\ \A i \in 1..Len(procs) : procs[i].timeout # NoTimeout
       /\ ProcessMisbehaved => (failure.command # None /\ failure.names # <<>>))

\* the collaborator is unavailable, raises, or answers with a text that is not JSON
FilterFailed == collaborator.kind \in {"missing", "no_provider", "raises", "unparseable"}

\* C20: when filtering was asked for and the collaborator is unavailable, raises
\* or answers with a text that cannot be parsed, every name the heuristics
\* marked is still an entry point after the third pass.
C20_FilterFailsOpen ==
    (fpc = "filtered" /\ use_llm_filtering /\ FilterFailed) =>
        \A q \in heuristic : function_infos[q]

(***************************************************************************)
(* Claims about the call resolver.                                         *)
(***************************************************************************)
Resolved1 == rpc \in {"returned", "raised"}

\* what each strategy of resolve yields on its own for the call at hand: a
\* target, or NoName when it does not match
Yields(k) ==
    LET t == resolver_table
        md == caller.metadata
        method_call == ResolveMethodCall(t, raw_call, md.local_bindings, <<>>)
    IN  CASE k = 1 -> IF Len(raw_call) > 1 /\ method_call.exc = "none"
                      THEN method_call.value ELSE NoName
          [] k = 2 -> IF /\ raw_call \in DOMAIN md.function_local_imports
                         /\ md.function_local_imports[raw_call] \in DOMAIN t.symbols.map
                      THEN md.function_local_imports[raw_call] ELSE NoName
          [] k = 3 -> IF ResolveType(t, raw_call) = NoName THEN NoName
                      ELSE IF /\ GetClass(t, raw_call) # NoName
                              /\ <<"__init__">> \in DOMAIN t.classes[GetClass(t, raw_call)].methods
                           THEN t.classes[GetClass(t, raw_call)].methods[<<"__init__">>]
                           ELSE ResolveType(t, raw_call)
          [] k = 4 -> IF /\ raw_call \in DOMAIN t.imports
                         /\ t.imports[raw_call] \in DOMAIN t.symbols.map
                      THEN t.imports[raw_call] ELSE NoName
          [] k = 5 -> IF t.module_name \o raw_call \in DOMAIN t.symbols.map
                      THEN t.module_name \o raw_call ELSE NoName
          [] OTHER -> ResolveQualifiedCall(t, raw_call).value

Matching == {k \in 1..6 : Yields(k) # NoName}

FirstMatching == CHOOSE k \in Matching : \A j \in Matching : k <= j

\* C22: resolve returns the target of the first of the six strategies, in the
\* order attribute chain, function-local import, constructor, module-level
\* import, same module, prefix, that matches the raw call, and None when none
\* matches.
C22_FirstStrategyWins ==
    Resolved1 =>
        /\ rpc = "returned"
        /\ resolution.value = IF Matching = {} THEN NoName ELSE Yields(FirstMatching)

\* C29: resolve ends by returning for every raw call and table, also when
\* following return annotations in _resolve_type_method leads back to a type
\* name already visited: no call ends at the interpreter's recursion limit.
C29_TypeChainsEnd == Resolved1 => resolution.exc # "RecursionError"

\* the qualified names of the symbols and classes a Python table knows
KnownTo(t) ==
    DOMAIN t.symbols.map \cup {t.classes[k].qualified_name : k \in DOMAIN t.classes}

\* C23: after resolve_calls every entry of a Python symbol's resolved_calls is
\* the qualified name of a symbol or class of the table; a raw call whose
\* callee is none of them, such as a name imported from outside the project,
\* leaves no entry.
C23_OnlyKnownTargets ==
    language = "python" /\ ppc = "resolved" =>
        \A q \in DOMAIN merged.symbols.map :
            Range(merged.symbols.map[q].resolved_calls) \subseteq KnownTo(merged)

\* the names of the top-level functions of a Python file
TopLevelNames(file) == {file.ast.functions[i].name : i \in 1..Len(file.ast.functions)}

\* a bare call that strategies 1 to 4 leave alone in the merged table: it is no
\* attribute chain, no function-local import, no class and no import
LeftToSameModule(fn, call) ==
    /\ Len(call) = 1
    /\ call \notin DOMAIN ExtractFunctionLocalImports(fn)
    /\ call \notin DOMAIN symbol_tables["python"].classes
    /\ call \notin DOMAIN symbol_tables["python"].imports

\* C24: in the pipeline a raw call f made by a function of module M, where M
\* defines a top-level function f and no higher-priority strategy matches,
\* resolves to M.f.
C24_SameModuleResolves ==
    \A file \in PythonFiles : \A i \in 1..Len(file.ast.functions) :
        LET fn == file.ast.functions[i]
            M == PathToModule(file)
        IN  \A call \in Range(ExtractCalls(fn)) :
                (LeftToSameModule(fn, call) /\ call[1] \in TopLevelNames(file))
                    => M \o call \in Range(PythonSymbols[M \o <<fn.name>>].resolved_calls)

(***************************************************************************)
(* Claims about what bridging leaves alone.                                *)
(***************************************************************************)
\* only the HTTP bridge, or bridges that return nothing, are registered
HttpBridgingOnly == \A i \in 1..Len(bridges) : bridges[i].name # "StubBridge"

\* a shell symbol one of whose HTTP-shaped raw calls names a handler
HttpMatched(lang, symbol) ==
    /\ lang = "shell"
    /\ "python" \in DOMAIN symbol_tables
    /\ BridgedCalls(symbol, BuildEndpointMap(symbol_tables["python"], 1, <<>>)) # <<>>

\* C25: apply_cross_refs changes nothing but the resolved_calls of the shell
\* symbols whose HTTP-shaped raw calls matched a handler: every Python symbol,
\* every other shell symbol and every other field stay as they were, also when
\* a Python symbol has the qualified name of a script.
C25_BridgingFrame ==
    [][(apc = "cross_refs_resolved" /\ apc' = "cross_refs_applied" /\ HttpBridgingOnly) =>
          /\ DOMAIN symbol_tables' = DOMAIN symbol_tables
          /\ \A lang \in DOMAIN symbol_tables :
                LET old == symbol_tables[lang]
                    new == symbol_tables'[lang]
                IN  /\ [new EXCEPT !.symbols = old.symbols] = old
                    /\ new.symbols.keys = old.symbols.keys
                    /\ \A q \in DOMAIN old.symbols.map :
                          /\ [new.symbols.map[q] EXCEPT !.resolved_calls =
                                    old.symbols.map[q].resolved_calls] = old.symbols.map[q]
                          /\ new.symbols.map[q] # old.symbols.map[q]
                                => HttpMatched(lang, old.symbols.map[q])]_vars

(***************************************************************************)
(* Claims about file discovery                                             *)
(***************************************************************************)
RelativelyExcluded(file) ==
    \E d \in Range(file.dirs) :
        StartsWithDot(d) \/ d \in {"venv", "node_modules", "__pycache__", "build", "dist"}

\* C26: the files discovered are exactly the .py and .sh files below
\* project_root none of whose directories, relative to project_root, is
\* hidden or named venv, node_modules, __pycache__, build or dist; the
\* directories above project_root play no part.
C26_DiscoveredByRelativePath ==
    apc \in {"discovered", "grouped"} =>
        \A f \in Range(project) :
            f \in Range(files) <=> (f.ext \in {"py", "sh"} /\ ~RelativelyExcluded(f))

C26_Reached ==
    /\ apc = "grouped"
    /\ project_root # PROJECT_ROOT
    /\ \E f \in Range(project) : f.ext \in {"py", "sh"} /\ ~RelativelyExcluded(f)

(***************************************************************************)
(* Claims about the statistics of a diff                                   *)
(***************************************************************************)
\* C28: the statistics computed from symbol_changes count its ADDED, MODIFIED
\* and DELETED entries, the three counts add up to its size, and
\* functions_unchanged is the number of qualified names present on both sides
\* that have no entry in symbol_changes.
C28_StatsCountChanges ==
    Mapped =>
        LET stats == CalculateStats(symbol_changes)
        IN  /\ stats.functions_added = Cardinality({q \in DOMAIN symbol_changes : symbol_changes[q] = "A"})
            /\ stats.functions_modified = Cardinality({q \in DOMAIN symbol_changes : symbol_changes[q] = "M"})
            /\ stats.functions_deleted = Cardinality({q \in DOMAIN symbol_changes : symbol_changes[q] = "D"})
            /\ stats.functions_added + stats.functions_modified + stats.functions_deleted
                   = Cardinality(DOMAIN symbol_changes)
            /\ stats.functions_unchanged
                   = Cardinality({q \in InBoth : q \notin DOMAIN symbol_changes})

(***************************************************************************)
(* Claims about the file change detector                                   *)
(***************************************************************************)
\* the directory state of a side: the commit's tree, or the project directory
StateOf(ref) == IF ref = None THEN work_tree ELSE CommitTree(ref)

BeforeState == StateOf(before_ref)

AfterState == StateOf(after_ref)

ChangedPaths ==
    {p \in Range(RepoPaths) :
        \/ (p \in DOMAIN BeforeState) # (p \in DOMAIN AfterState)
        \/ p \in DOMAIN BeforeState \cap DOMAIN AfterState /\ BeforeState[p] # AfterState[p]}

WellClassified(change) ==
    /\ IsSupportedFile(change.path)
    /\ change.change_type = "A" =>
           change.path \in DOMAIN AfterState \ DOMAIN BeforeState /\ change.old_path = None
    /\ change.change_type = "D" =>
           change.path \in DOMAIN BeforeState \ DOMAIN AfterState /\ change.old_path = None
    /\ change.change_type = "M" =>
           /\ change.path \in DOMAIN BeforeState \cap DOMAIN AfterState
           /\ BeforeState[change.path] # AfterState[change.path]
           /\ change.old_path = None
    /\ change.change_type = "R" =>
           /\ change.old_path \in DOMAIN BeforeState \ DOMAIN AfterState
           /\ change.path \in DOMAIN AfterState \ DOMAIN BeforeState
           /\ Similarity(BeforeState[change.old_path], AfterState[change.path]) # "000"

\* C27: with a commit on at least one side, get_changed_files returns, each
\* entry has a .py or .sh path and is classified in the before -> after
\* direction (Added: only after; Deleted: only before; Modified: in both with
\* different content; Renamed: old_path only before, path only after, the
\* same or a similar content), no path is listed twice, and every changed
\* .py or .sh path is the path of an entry or the old_path of a rename.
C27_ChangesClassified ==
    (cpc \in {"returned", "raised"} /\ (before_ref # None \/ after_ref # None)) =>
        /\ cpc = "returned"
        /\ LET changes == file_changes.value
           IN  /\ \A i \in 1..Len(changes) : WellClassified(changes[i])
               /\ \A i, j \in 1..Len(changes) : changes[i].path = changes[j].path => i = j
               /\ \A p \in ChangedPaths :
                      IsSupportedFile(p) =>
                          \E i \in 1..Len(changes) :
                              \/ changes[i].path = p
                              \/ changes[i].change_type = "R" /\ changes[i].old_path = p

(***************************************************************************)
(* Claims about the order in which the files are found                     *)
(***************************************************************************)
\* merge_symbol_tables then resolve_calls, on the tables in the order p
ResolvedInOrder(p) == ResolveCallsOf(language, MergeSymbolTables(language, Permuted(p)))

\* C30: whatever the order in which the files were found, merging their
\* tables and resolving the calls ends the same way and yields the same
\* symbols with the same resolved_calls.
C30_OrderIndependent ==
    (ppc \notin {"idle", "tables", "merged"} /\ runs = 1) =>
        \A p \in Permutations(1..Len(file_tables)) :
            /\ ResolvedInOrder(p).exc = (IF ppc = "resolved" THEN "none" ELSE ppc)
            /\ ResolvedCallsOf(ResolvedInOrder(p).table) = ResolvedCallsOf(merged)

====
